---- MODULE Spec2Model ----
(***************************************************************************)
(* Model of the codeblock engine of obsidian-callout-forge:                *)
(*   codeblock-engine/match.ts   (JumpCondition, LineMatchRule, MATCHERS)  *)
(*   codeblock-engine/states.ts  (ParserState and its subclasses)          *)
(*   codeblock-engine/parser.ts  (CodeblockParser)                         *)
(*   codeblock-engine/property.ts (CodeblockProperty)                      *)
(* and of its template engine:                                             *)
(*   template-engine/handlebar.ts (SYNTAX_LIBRARY)                         *)
(*   template-engine/token.ts     (TextToken, HandlebarToken, ...)         *)
(*   template-engine/parser.ts    (TemplateParser)                         *)
(*   template-engine/compiler.ts  (TemplateCompiler)                       *)
(* and of the Template class that went before the template engine:         *)
(*   template/template.ts         (Template)                               *)
(*   rendering/types.ts           (MarkdownRenderedProperty)               *)
(*   template-module/token.ts     (Token and its subclasses)               *)
(* and of the table-driven parser that went before the codeblock engine:   *)
(*   codeblock-parser/parser.ts   (CodeblockParser.parseProperties)        *)
(*   old-parser/states.ts         (ACCEPTING_STATES, TRANSITION_MAP)       *)
(* and of the rendering engine's Pair:                                     *)
(*   rendering/pair.ts            (Pair)                                   *)
(*                                                                         *)
(* Spec runs the codeblock engine, SpecReparse the codeblock engine with a *)
(* caller that parses its results again, SpecTemplate the template engine, *)
(* SpecRecompile the template engine with a caller that compiles twice,    *)
(* SpecEmptyValued the template engine with codeblocks that hold empty     *)
(* values, SpecBuild the Template class, SpecFill the Template class with  *)
(* a caller that fills the template, SpecRender a Pair and its render(),   *)
(* SpecFirstCall the codeblock engine's first call after the module loads, *)
(* SpecLoop the codeblock engine with its parse loop running on, SpecTable *)
(* the table-driven parser and the codeblock engine on the same sources.   *)
(*                                                                         *)
(* A string is a sequence of one-character strings.  One action is one     *)
(* call of a state's handle() (or the constructor's prologue); successive  *)
(* CodeblockParser.fromString calls run one after the other in the same    *)
(* module instance, so they see the same MATCHERS rule objects.            *)
(***************************************************************************)
EXTENDS Integers, Sequences, FiniteSets, TLC

(***************************************************************************)
(* Characters.                                                             *)
(***************************************************************************)
\* The backtick character U+0060 (a TLA+ string literal cannot hold it).
Tick == "BACKTICK"
\* What \s matches and String.prototype.trim strips: the WhiteSpace and
\* LineTerminator code points of ECMAScript.  A character a TLA+ string
\* literal cannot hold is the one-character string named by its code point.
Whitespace ==
    { " ", "\t", "\n", "\r", "\f", "U+000B", "U+00A0", "U+1680",
      "U+2000", "U+2001", "U+2002", "U+2003", "U+2004", "U+2005", "U+2006",
      "U+2007", "U+2008", "U+2009", "U+200A", "U+2028", "U+2029", "U+202F",
      "U+205F", "U+3000", "U+FEFF" }
\* What "." (no s flag) does not match and where "$" (no m flag) does not
\* stop: the LineTerminator code points.
LineTerminators == { "\n", "\r", "U+2028", "U+2029" }
\* The class [a-z\-] of the Property rule.
KeyChars == {"a", "b", "c", "d", "e", "f", "g", "h", "i", "j", "k", "l", "m",
             "n", "o", "p", "q", "r", "s", "t", "u", "v", "w", "x", "y", "z",
             "-"}

(***************************************************************************)
(* Bounds and the inputs drawn at each call.                               *)
(***************************************************************************)
MaxLines == 4

LinePool ==
    { <<>>,                                \* empty line
      <<"a", ":", " ", "x">>,              \* a: x
      <<"b", ":">>,                        \* b:
      <<Tick, Tick, Tick>>,                \* three backticks
      <<Tick, Tick, Tick, Tick>>,          \* four backticks
      <<Tick, Tick, Tick, "j", "s">>,      \* three backticks + js
      <<" ", "x">>,                        \* text with a leading space
      <<"x", "\r", "y">>,                  \* text with an embedded CR
      <<"a", "-", "b", " ", ":", " ", "c", ":", "d">> }   \* a-b : c:d

(***************************************************************************)
(* String helpers (JavaScript built-ins).                                  *)
(***************************************************************************)
Min(S) == CHOOSE m \in S : \A n \in S : m <= n
Max(S) == CHOOSE m \in S : \A n \in S : m >= n

\* Array.prototype.join
RECURSIVE Join(_, _)
Join(strs, sep) ==
    IF Len(strs) = 0 THEN <<>>
    ELSE IF Len(strs) = 1 THEN strs[1]
    ELSE strs[1] \o sep \o Join(Tail(strs), sep)

\* Trim stripping blanks and tabs only, not line breaks.
TrimBlanksOnly(s) ==
    LET keep == { i \in 1..Len(s) : s[i] \notin {" ", "\t"} }
    IN  IF keep = {} THEN <<>> ELSE SubSeq(s, Min(keep), Max(keep))

\* String.prototype.trim
Trim(s) ==
    LET keep == { i \in 1..Len(s) : s[i] \notin Whitespace }
    IN  IF keep = {} THEN <<>> ELSE SubSeq(s, Min(keep), Max(keep))

\* String.prototype.split("\n")
RECURSIVE Split(_)
Split(s) ==
    LET nl == { i \in 1..Len(s) : s[i] = "\n" }
    IN  IF nl = {} THEN << s >>
        ELSE << SubSeq(s, 1, Min(nl) - 1) >> \o Split(SubSeq(s, Min(nl) + 1, Len(s)))

\* Length of the longest prefix of s made of characters of the class cls.
PrefixLen(s, cls) ==
    LET stop == { i \in 1..Len(s) : s[i] \notin cls }
    IN  IF stop = {} THEN Len(s) ELSE Min(stop) - 1

\* s without its first n characters.
Drop(s, n) == SubSeq(s, n + 1, Len(s))

Ticks(n) == [ i \in 1..n |-> Tick ]

(***************************************************************************)
(* match.ts: the rules' regular expressions.  exec yields <<>> for null    *)
(* and the match array <<whole, group 1, ...>> otherwise.                  *)
(***************************************************************************)
NonWsPrefixLen(s) ==
    LET stop == { i \in 1..Len(s) : s[i] \in Whitespace }
    IN  IF stop = {} THEN Len(s) ELSE Min(stop) - 1

\* The Property expression without the \s* that follows the colon.
PropertyExecKeepBlanks(line) ==
    LET k     == PrefixLen(line, KeyChars)
        a     == Drop(line, k)
        b     == Drop(a, PrefixLen(a, Whitespace))
        value == Drop(b, 1)
    IN  IF /\ k >= 1
           /\ Len(b) >= 1
           /\ b[1] = ":"
           /\ \A i \in 1..Len(value) : value[i] \notin LineTerminators
        THEN << line, SubSeq(line, 1, k), value >>
        ELSE <<>>

\* /^([a-z\-]+)\s*:\s*(.*)$/
PropertyExec(line) ==
    LET k     == PrefixLen(line, KeyChars)
        a     == Drop(line, k)
        b     == Drop(a, PrefixLen(a, Whitespace))
        c     == Drop(b, 1)
        value == Drop(c, PrefixLen(c, Whitespace))
    IN  IF /\ k >= 1
           /\ Len(b) >= 1
           /\ b[1] = ":"
           /\ \A i \in 1..Len(value) : value[i] \notin LineTerminators
        THEN << line, SubSeq(line, 1, k), value >>
        ELSE <<>>

\* /^(`{3,})(?:\s*[^\s]+)?\s*$/
NestedStartExec(line) ==
    LET n  == PrefixLen(line, {Tick})
        r  == Drop(line, n)
        r1 == Drop(r, PrefixLen(r, Whitespace))
        r2 == Drop(r1, NonWsPrefixLen(r1))
        r3 == Drop(r2, PrefixLen(r2, Whitespace))
    IN  IF n >= 3 /\ r3 = <<>> THEN << line, Ticks(n) >> ELSE <<>>

\* NestedEndExec without the anchors: the terminator anywhere at the line's start.
NestedEndExecUnanchored(rx, line) ==
    IF rx # <<>> /\ Len(line) >= Len(rx) /\ SubSeq(line, 1, Len(rx)) = rx
    THEN << rx >> ELSE <<>>

\* new RegExp(`^${backticks}$`); rx = <<>> is the null regex (rule skipped).
NestedEndExec(rx, line) ==
    IF rx # <<>> /\ line = rx THEN << line >> ELSE <<>>

\* /^.*$/
TextExec(line) ==
    IF \A i \in 1..Len(line) : line[i] \notin LineTerminators
    THEN << line >> ELSE <<>>

\* MATCHERS: the rules in Map insertion order.
MATCHERS == << "NestedEnd", "Property", "NestedStart", "Text" >>

RuleExec(rule, rx, line) ==
    CASE rule = "NestedEnd"   -> NestedEndExec(rx, line)
      [] rule = "Property"    -> PropertyExec(line)
      [] rule = "NestedStart" -> NestedStartExec(line)
      [] rule = "Text"        -> TextExec(line)

\* CodeblockParser.matchCurrentLine: <<the LineMatch>> of the first rule that
\* matches, <<>> when the loop falls through to the throw.
matchCurrentLine(rx, line, idx) ==
    LET hits == { r \in 1..Len(MATCHERS) : RuleExec(MATCHERS[r], rx, line) # <<>> }
    IN  IF hits = {} THEN <<>>
        ELSE << [ rule        |-> MATCHERS[Min(hits)],
                  lineContent |-> line,
                  lineIndex   |-> idx,
                  matchResult |-> RuleExec(MATCHERS[Min(hits)], rx, line) ] >>

(***************************************************************************)
(* states.ts: state classes, their types and jump maps.                    *)
(***************************************************************************)
\* StateType with NestedStartState marked Accepting.
StateTypeFenceAccepting(S) ==
    CASE S = "CodeblockStartState" -> "Initial"
      [] S \in {"PairState", "PairContentState", "NestedEndState", "NestedStartState"}
            -> "Accepting"
      [] S \in {"CodeblockEndState", "ParsingErrorState"} -> "Final"
      [] OTHER -> "Normal"

StateType(S) ==
    CASE S = "CodeblockStartState" -> "Initial"
      [] S \in {"PairState", "PairContentState", "NestedEndState"} -> "Accepting"
      [] S \in {"CodeblockEndState", "ParsingErrorState"} -> "Final"
      [] OTHER -> "Normal"

isFinal(S) == StateType(S) = "Final"

OutsideJumpMap ==
    ("Property" :> "PairState") @@ ("NestedStart" :> "NestedStartState")
        @@ ("Text" :> "PairContentState")

\* InsideJumpMap with the Property entry of the outside states.
InsideJumpMapProperty ==
    ("NestedEnd" :> "NestedEndState") @@ ("Property" :> "PairState")
        @@ ("NestedStart" :> "NestedContentState") @@ ("Text" :> "NestedContentState")

\* InsideJumpMap with the NestedStart entry of the outside states.
InsideJumpMapNesting ==
    ("NestedEnd" :> "NestedEndState") @@ ("Property" :> "NestedContentState")
        @@ ("NestedStart" :> "NestedStartState") @@ ("Text" :> "NestedContentState")

InsideJumpMap ==
    ("NestedEnd" :> "NestedEndState") @@ ("Property" :> "NestedContentState")
        @@ ("NestedStart" :> "NestedContentState") @@ ("Text" :> "NestedContentState")

JumpMap(S) ==
    CASE S = "CodeblockStartState" -> ("Property" :> "PairState")
      [] S \in {"PairState", "PairContentState", "NestedEndState"} -> OutsideJumpMap
      [] S \in {"NestedStartState", "NestedContentState"} -> InsideJumpMap
      [] OTHER -> << >>

(***************************************************************************)
(* Error messages (CalloutForgeError).                                     *)
(***************************************************************************)
NoError == [ text |-> "", state |-> "", cond |-> "", line |-> 0, keys |-> <<>> ]
Error(t) == [ NoError EXCEPT !.text = t ]
EmptyError == Error("Codeblock is empty or has only whitespaces.")
StartError == Error("Codeblock must start with a pair.")
UnexpectedEndError(S) ==
    [ Error("Unexpected end of input: <state> is not an accepting state.")
        EXCEPT !.state = S ]
InvalidTransitionError(cond, S) ==
    [ Error("Invalid input transition: <cond> jump condition has no mapping in <state>.")
        EXCEPT !.state = S, !.cond = cond ]
NoMatchError(n) == [ Error("Line <line> could not be matched.") EXCEPT !.line = n ]
NoActivePairError(n) ==
    [ Error("Line <line>: no active pair to append to.") EXCEPT !.line = n ]
DuplicateError(keys) ==
    [ Error("Duplicate pairs found: <keys>") EXCEPT !.keys = Join(keys, << ",", " " >>) ]

(***************************************************************************)
(* property.ts: CodeblockProperty.                                         *)
(***************************************************************************)
CodeblockProperty(key, source) == [ key |-> key, value |-> source ]

\* extend assigning ("=") instead of appending ("+=").
extendAssigning(p, value) == [ p EXCEPT !.value = << "\n" >> \o value ]

\* CodeblockProperty.extend: this.source += `\n${value}`
extend(p, value) == [ p EXCEPT !.value = @ \o << "\n" >> \o value ]

(***************************************************************************)
(* parser.ts: the state of the program.                                    *)
(***************************************************************************)
VARIABLES
    codefenceRegex, \* regex of the NestedEnd LineMatchRule object of MATCHERS
                    \* (<<>> is null); the object every parser's Map refers to
    pc,             \* "idle" | "running" | "returned" | "thrown": the current
                    \* fromString call
    source,         \* argument of the current call
    lines,          \* this.lines
    index,          \* this.index (0-based)
    state,          \* class of this.state ("" before the first setState)
    pair,           \* this.pair: <<>> is null, else <<the property>>
    pairs,          \* this.pairs
    match,          \* this.match: <<>> is unassigned, else <<the LineMatch>>
    errorMsg,       \* this.errorMsg
    thrown,         \* the error the call threw (NoError if none)
    kept            \* the caller's: <<>>, or <<the list>> a call returned, while
                    \* the call under way parses that list written out again

(***************************************************************************)
(* template-engine/parser.ts and compiler.ts: the state of a               *)
(* TemplateParser.parse call and of the TemplateCompiler.compile call on   *)
(* its result.                                                             *)
(***************************************************************************)
VARIABLES
    tplPc,            \* "idle" | "parsing" | "parsed" | "compiling" | "compiled" |
                      \* "failed": the current parse and compile
    tplSource,        \* parse: source
    tplIndex,         \* parse: index (0-based)
    tplMatch,         \* parse: match (<<>> is null, else <<the match>>)
    tokens,           \* parse: tokens, then compile: template
    codeblock,        \* compile: codeblock
    compiledTokens,   \* compile: the tokens template.map has transformed
    compiledTemplate, \* compile: <<>> before the return, else <<the string>>
    tplThrown,        \* the error a call threw (NoError if none)
    compiledBefore    \* the caller's: <<>>, or <<the codeblock and the outcome>>
                      \* of the compile before, while the tokens are compiled
                      \* again

(***************************************************************************)
(* template/template.ts: the state of a Template.fromString call.          *)
(***************************************************************************)
VARIABLES
    buildPc,       \* "idle" | "building" | "built" | "failed": the current call
    sourceString,  \* this._sourceString
    tokenMatches,  \* _build: tokenMatches
    buildIndex,    \* _build: how many of tokenMatches the for loop has taken
    buildTokens,   \* _build: tokens, and this._tokens once the call has returned
    buildThrown    \* the error the call threw (NoError if none)

(***************************************************************************)
(* template/template.ts: the state of a fill call on the Template.         *)
(***************************************************************************)
VARIABLES
    fillPc,         \* "idle" | "filling" | "filled" | "failed": the current call
    properties,     \* fill: the argument
    renderedMap,    \* fill: renderedMap, a function from its keys
    filled,         \* fill: filled, and what the call returns
    missingTokens,  \* fill: missingTokens
    fillIndex,      \* fill: how many of this.tokens the for loop has taken
    fillThrown      \* the error the call threw (NoError if none)

(***************************************************************************)
(* rendering/pair.ts: one Pair object and the render() calls made on it.   *)
(***************************************************************************)
VARIABLES
    pairPc,        \* "none" | "live": whether the Pair has been constructed
    sourceValue,   \* this.sourceValue
    isRendered,    \* this.isRendered
    renderedValue, \* this.renderedValue (<<>> is undefined, else <<the HTML>>)
    renderCalls,   \* the render() calls made so far, in call order: each is
                   \* awaiting renderMarkdownString or has resolved to html
    rendered,      \* the arguments renderMarkdownString was invoked with
    pairThrown     \* the error the last extend() threw (NoError if none)

(***************************************************************************)
(* codeblock-parser/parser.ts: the state of a parseProperties call of the  *)
(* table-driven CodeblockParser, and its caller's.                         *)
(***************************************************************************)
VARIABLES
    tablePc,           \* "idle" | "running" | "returned" | "thrown": the current
                       \* parseProperties call
    tableSource,       \* argument of the current call
    tableLines,        \* this._lines
    currentState,      \* this._currentState
    currentIndex,      \* this._currentIndex (0-based)
    currentLineMatch,  \* this._currentLineMatch: <<>> is unassigned
    currentProperty,   \* this._currentProperty: <<>> is null
    parsedProperties,  \* this._parsedProperties
    errorMessage,      \* this._errorMessage (NoError is null)
    codefenceEnd,      \* regex of the "codefence-end" rule of this._lineMatchers
                       \* (<<>> is null)
    tableThrown,       \* the error the call threw (NoError if none)
    visited            \* the caller's: the states whose handlers _parse has run

parserVars == << codefenceRegex, pc, source, lines, index, state, pair, pairs, match,
                 errorMsg, thrown, kept >>

templateVars == << tplPc, tplSource, tplIndex, tplMatch, tokens, codeblock,
                   compiledTokens, compiledTemplate, tplThrown, compiledBefore >>

buildVars == << buildPc, sourceString, tokenMatches, buildIndex, buildTokens, buildThrown >>

pairVars == << pairPc, sourceValue, isRendered, renderedValue, renderCalls, rendered,
               pairThrown >>

tableVars == << tablePc, tableSource, tableLines, currentState, currentIndex,
                currentLineMatch, currentProperty, parsedProperties, errorMessage,
                codefenceEnd, tableThrown, visited >>

fillVars == << fillPc, properties, renderedMap, filled, missingTokens, fillIndex,
               fillThrown >>

vars == << parserVars, templateVars, buildVars, pairVars, tableVars, fillVars >>

TemplateInit ==
    /\ tplPc = "idle"
    /\ tplSource = <<>>
    /\ tplIndex = 0
    /\ tplMatch = <<>>
    /\ tokens = <<>>
    /\ codeblock = <<>>
    /\ compiledTokens = <<>>
    /\ compiledTemplate = <<>>
    /\ tplThrown = NoError
    /\ compiledBefore = <<>>

BuildInit ==
    /\ buildPc = "idle"
    /\ sourceString = <<>>
    /\ tokenMatches = <<>>
    /\ buildIndex = 0
    /\ buildTokens = <<>>
    /\ buildThrown = NoError

FillInit ==
    /\ fillPc = "idle"
    /\ properties = <<>>
    /\ renderedMap = <<>>
    /\ filled = <<>>
    /\ missingTokens = <<>>
    /\ fillIndex = 0
    /\ fillThrown = NoError

PairInit ==
    /\ pairPc = "none"
    /\ sourceValue = <<>>
    /\ isRendered = FALSE
    /\ renderedValue = <<>>
    /\ renderCalls = <<>>
    /\ rendered = <<>>
    /\ pairThrown = NoError

TableInit ==
    /\ tablePc = "idle"
    /\ tableSource = <<>>
    /\ tableLines = <<>>
    /\ currentState = "CodeblockStart"
    /\ currentIndex = 0
    /\ currentLineMatch = <<>>
    /\ currentProperty = <<>>
    /\ parsedProperties = <<>>
    /\ errorMessage = NoError
    /\ codefenceEnd = <<>>
    /\ tableThrown = NoError
    /\ visited = <<>>

\* The codeblock of "Example Parsing Flow" in doc/codeblock-engine.md.
DocExampleLines ==
    << << "t", "i", "t", "l", "e", ":", " ", "E", "x", "a", "m", "p", "l", "e" >>,
       << "d", "e", "s", "c", "r", "i", "p", "t", "i", "o", "n", ":", " ", "T", "h", "i", "s", " ", "i", "s", " ", "a", " ", "t", "e", "s", "t" >>,
       << Tick, Tick, Tick, "j", "s", " ", "c", "o", "n", "s", "o", "l", "e", ".", "l", "o", "g", "(", "\"", "H", "e", "l", "l", "o", "\"", ")", ";" >>,
       << Tick, Tick, Tick >>,
       << "n", "o", "t", "e", "s", ":", " ", "S", "o", "m", "e", " ", "e", "x", "t", "r", "a", " ", "i", "n", "f", "o" >> >>

\* The sources a call may be given: up to MaxLines pool lines joined by \n,
\* and the documented example.
Inputs ==
    { Join(ls, << "\n" >>) : ls \in UNION { [1..n -> LinePool] : n \in 0..MaxLines } }
      \cup { Join(DocExampleLines, << "\n" >>) }

Init ==
    /\ codefenceRegex = <<>>
    /\ pc = "idle"
    /\ source = <<>>
    /\ lines = <<>>
    /\ index = 0
    /\ state = ""
    /\ pair = <<>>
    /\ pairs = <<>>
    /\ match = <<>>
    /\ errorMsg = NoError
    /\ thrown = NoError
    /\ kept = <<>>
    /\ TemplateInit
    /\ BuildInit
    /\ PairInit
    /\ TableInit
    /\ FillInit

\* CodeblockParser.isLastLine
isLastLine(ls, idx) == idx >= Len(ls) - 1

\* storeCodeblockProperty putting the pair in front (unshift) instead of at
\* the end (push).
storeCodeblockPropertyInFront(ps, p) == IF p # <<>> THEN << p[1] >> \o ps ELSE ps

\* CodeblockParser.storeCodeblockProperty: the pairs list afterwards.
storeCodeblockProperty(ps, p) == IF p # <<>> THEN Append(ps, p[1]) ELSE ps

\* CodeblockParser.validateCodeblockPropertys: the duplicate set in insertion
\* order, folded over pairs from position i with the two sets seen and dups.
RECURSIVE duplicateKeys(_, _, _, _)
duplicateKeys(ps, i, seen, dups) ==
    IF i > Len(ps) THEN dups
    ELSE LET key == ps[i].key
         IN  IF key \in seen
             THEN duplicateKeys(ps, i + 1, seen,
                     IF \E j \in 1..Len(dups) : dups[j] = key
                     THEN dups ELSE Append(dups, key))
             ELSE duplicateKeys(ps, i + 1, seen \cup {key}, dups)

\* validateCodeblockPropertys reporting the first duplicate alone.
validateFirstDuplicateOnly(ps) ==
    LET dups == duplicateKeys(ps, 1, {}, <<>>)
    IN  IF Len(dups) > 0 THEN DuplicateError(<< dups[1] >>) ELSE NoError

validateCodeblockPropertys(ps) ==
    LET dups == duplicateKeys(ps, 1, {}, <<>>)
    IN  IF Len(dups) > 0 THEN DuplicateError(dups) ELSE NoError

\* The fields a jump may change, as they stand.
Here == [ index |-> index, match |-> match, state |-> state,
          errorMsg |-> errorMsg, pc |-> pc, thrown |-> thrown ]

\* ParserState.jump without incrementIndex: the next line is matched and the
\* index stays.
jumpWithoutIncrement(S, rx) ==
    IF isLastLine(lines, index)
    THEN IF StateType(S) = "Accepting"
         THEN [ Here EXCEPT !.state = "CodeblockEndState" ]
         ELSE [ Here EXCEPT !.errorMsg = UnexpectedEndError(S),
                            !.state = "ParsingErrorState" ]
    ELSE LET i == index + 1
             m == matchCurrentLine(rx, lines[i + 1], i)
         IN  IF m = <<>>
             THEN [ Here EXCEPT !.pc = "thrown", !.thrown = NoMatchError(i + 1) ]
             ELSE IF m[1].rule \in DOMAIN JumpMap(S)
             THEN [ Here EXCEPT !.match = m, !.state = JumpMap(S)[m[1].rule] ]
             ELSE [ Here EXCEPT !.match = m,
                                !.errorMsg = InvalidTransitionError(m[1].rule, S),
                                !.state = "ParsingErrorState" ]

\* ParserState.jump for a state of class S, the NestedEnd regex being rx.
jump(S, rx) ==
    IF isLastLine(lines, index)
    THEN IF StateType(S) = "Accepting"
         THEN [ Here EXCEPT !.state = "CodeblockEndState" ]
         ELSE [ Here EXCEPT !.errorMsg = UnexpectedEndError(S),
                            !.state = "ParsingErrorState" ]
    ELSE LET i == index + 1
             m == matchCurrentLine(rx, lines[i + 1], i)
         IN  IF m = <<>>
             THEN [ Here EXCEPT !.index = i, !.pc = "thrown",
                                !.thrown = NoMatchError(i + 1) ]
             ELSE IF m[1].rule \in DOMAIN JumpMap(S)
             THEN [ Here EXCEPT !.index = i, !.match = m,
                                !.state = JumpMap(S)[m[1].rule] ]
             ELSE [ Here EXCEPT !.index = i, !.match = m,
                                !.errorMsg = InvalidTransitionError(m[1].rule, S),
                                !.state = "ParsingErrorState" ]

\* startJump looking the match up in the map of the outside states.
startJumpOutside ==
    IF match[1].rule \in DOMAIN OutsideJumpMap
    THEN [ Here EXCEPT !.state = OutsideJumpMap[match[1].rule] ]
    ELSE [ Here EXCEPT !.errorMsg = StartError, !.state = "ParsingErrorState" ]

\* CodeblockStartState.jump (override): no line is consumed.
startJump ==
    IF match[1].rule \in DOMAIN JumpMap("CodeblockStartState")
    THEN [ Here EXCEPT !.state = JumpMap("CodeblockStartState")[match[1].rule] ]
    ELSE [ Here EXCEPT !.errorMsg = StartError, !.state = "ParsingErrorState" ]

\* Assign the fields a jump returns.
Jumped(j) ==
    /\ index' = j.index
    /\ match' = j.match
    /\ state' = j.state
    /\ errorMsg' = j.errorMsg
    /\ pc' = j.pc
    /\ thrown' = j.thrown

\* extendCodeblockPropertyValue on a null pair: the throw leaves the call.
ThrowNoActivePair ==
    /\ pc' = "thrown"
    /\ thrown' = NoActivePairError(index + 1)
    /\ UNCHANGED << index, match, state, errorMsg, pair >>

(***************************************************************************)
(* Actions.                                                                *)
(***************************************************************************)
\* new CodeblockParser(src) up to the first setState: field initialisers,
\* trim, the emptiness guard, split, matchCurrentLine, setState(Start).
Construct(src) ==
    /\ source' = src
    /\ index' = 0
    /\ pair' = <<>>
    /\ pairs' = <<>>
    /\ errorMsg' = NoError
    /\ UNCHANGED codefenceRegex
    /\ LET trimmedSource == Trim(src)
       IN  IF trimmedSource = <<>>
           THEN /\ thrown' = EmptyError
                /\ pc' = "thrown"
                /\ lines' = <<>>
                /\ match' = <<>>
                /\ state' = ""
           ELSE LET m == matchCurrentLine(codefenceRegex, Split(trimmedSource)[1], 0)
                IN  /\ lines' = Split(trimmedSource)
                    /\ match' = m
                    /\ IF m = <<>>
                       THEN /\ thrown' = NoMatchError(1)
                            /\ pc' = "thrown"
                            /\ state' = ""
                       ELSE /\ thrown' = NoError
                            /\ pc' = "running"
                            /\ state' = "CodeblockStartState"

\* CodeblockStartState.handle
HandleCodeblockStart ==
    /\ pc = "running"
    /\ state = "CodeblockStartState"
    /\ Jumped(startJump)
    /\ UNCHANGED << codefenceRegex, source, lines, pair, pairs >>
    /\ UNCHANGED << kept, templateVars, buildVars, pairVars, tableVars, fillVars >>

\* PairState.handle
HandlePair ==
    /\ pc = "running"
    /\ state = "PairState"
    /\ pairs' = storeCodeblockProperty(pairs, pair)
    /\ pair' = << CodeblockProperty(match[1].matchResult[2], match[1].matchResult[3]) >>
    /\ Jumped(jump("PairState", codefenceRegex))
    /\ UNCHANGED << codefenceRegex, source, lines >>
    /\ UNCHANGED << kept, templateVars, buildVars, pairVars, tableVars, fillVars >>

\* PairContentState.handle
HandlePairContent ==
    /\ pc = "running"
    /\ state = "PairContentState"
    /\ IF pair = <<>>
       THEN ThrowNoActivePair
       ELSE /\ pair' = << extend(pair[1], match[1].lineContent) >>
            /\ Jumped(jump("PairContentState", codefenceRegex))
    /\ UNCHANGED << codefenceRegex, source, lines, pairs >>
    /\ UNCHANGED << kept, templateVars, buildVars, pairVars, tableVars, fillVars >>

\* NestedStartState.handle appending the captured backticks (matchResult[1])
\* instead of the line.
HandleNestedStartCapture ==
    /\ pc = "running"
    /\ state = "NestedStartState"
    /\ codefenceRegex' = match[1].matchResult[2]
    /\ IF pair = <<>>
       THEN ThrowNoActivePair
       ELSE /\ pair' = << extend(pair[1], match[1].matchResult[2]) >>
            /\ Jumped(jump("NestedStartState", match[1].matchResult[2]))
    /\ UNCHANGED << source, lines, pairs >>
    /\ UNCHANGED << kept, templateVars, buildVars, pairVars, tableVars, fillVars >>

\* NestedStartState.handle
HandleNestedStart ==
    /\ pc = "running"
    /\ state = "NestedStartState"
    /\ codefenceRegex' = match[1].matchResult[2]
    /\ IF pair = <<>>
       THEN ThrowNoActivePair
       ELSE /\ pair' = << extend(pair[1], match[1].lineContent) >>
            /\ Jumped(jump("NestedStartState", match[1].matchResult[2]))
    /\ UNCHANGED << source, lines, pairs >>
    /\ UNCHANGED << kept, templateVars, buildVars, pairVars, tableVars, fillVars >>

\* NestedContentState.handle
HandleNestedContent ==
    /\ pc = "running"
    /\ state = "NestedContentState"
    /\ IF pair = <<>>
       THEN ThrowNoActivePair
       ELSE /\ pair' = << extend(pair[1], match[1].lineContent) >>
            /\ Jumped(jump("NestedContentState", codefenceRegex))
    /\ UNCHANGED << codefenceRegex, source, lines, pairs >>
    /\ UNCHANGED << kept, templateVars, buildVars, pairVars, tableVars, fillVars >>

\* NestedEndState.handle without clearCodefenceRegex.
HandleNestedEndKeepingRegex ==
    /\ pc = "running"
    /\ state = "NestedEndState"
    /\ IF pair = <<>>
       THEN ThrowNoActivePair
       ELSE /\ pair' = << extend(pair[1], match[1].lineContent) >>
            /\ Jumped(jump("NestedEndState", codefenceRegex))
    /\ UNCHANGED << codefenceRegex, source, lines, pairs >>
    /\ UNCHANGED << kept, templateVars, buildVars, pairVars, tableVars, fillVars >>

\* NestedEndState.handle
HandleNestedEnd ==
    /\ pc = "running"
    /\ state = "NestedEndState"
    /\ codefenceRegex' = <<>>
    /\ IF pair = <<>>
       THEN ThrowNoActivePair
       ELSE /\ pair' = << extend(pair[1], match[1].lineContent) >>
            /\ Jumped(jump("NestedEndState", <<>>))
    /\ UNCHANGED << source, lines, pairs >>
    /\ UNCHANGED << kept, templateVars, buildVars, pairVars, tableVars, fillVars >>

\* CodeblockEndState.handle, then the constructor's validation and the return
\* of fromString.
HandleCodeblockEnd ==
    /\ pc = "running"
    /\ state = "CodeblockEndState"
    /\ pairs' = storeCodeblockProperty(pairs, pair)
    /\ pair' = <<>>
    /\ thrown' = validateCodeblockPropertys(pairs')
    /\ pc' = IF thrown' = NoError THEN "returned" ELSE "thrown"
    /\ UNCHANGED << codefenceRegex, source, lines, index, state, match, errorMsg >>
    /\ UNCHANGED << kept, templateVars, buildVars, pairVars, tableVars, fillVars >>

\* ParsingErrorState.handle
HandleParsingError ==
    /\ pc = "running"
    /\ state = "ParsingErrorState"
    /\ thrown' = errorMsg
    /\ pc' = "thrown"
    /\ UNCHANGED << codefenceRegex, source, lines, index, state, pair, pairs,
                    match, errorMsg >>
    /\ UNCHANGED << kept, templateVars, buildVars, pairVars, tableVars, fillVars >>

\* The call has returned or thrown and its caller drops the parser: of the
\* call nothing is left but the rule objects of MATCHERS.
Leave ==
    /\ pc \in {"returned", "thrown"}
    /\ pc' = "idle"
    /\ source' = <<>>
    /\ lines' = <<>>
    /\ index' = 0
    /\ state' = ""
    /\ pair' = <<>>
    /\ pairs' = <<>>
    /\ match' = <<>>
    /\ errorMsg' = NoError
    /\ thrown' = NoError
    /\ kept' = <<>>
    /\ UNCHANGED codefenceRegex
    /\ UNCHANGED << templateVars, buildVars, pairVars, tableVars, fillVars >>

\* CodeblockParser.fromString on any source, once no call is under way.
FromString ==
    /\ pc = "idle"
    /\ \E src \in Inputs : Construct(src)
    /\ UNCHANGED << kept, templateVars, buildVars, pairVars, tableVars, fillVars >>

Next ==
    \/ FromString
    \/ HandleCodeblockStart
    \/ HandlePair
    \/ HandlePairContent
    \/ HandleNestedStart
    \/ HandleNestedContent
    \/ HandleNestedEnd
    \/ HandleCodeblockEnd
    \/ HandleParsingError
    \/ Leave

Spec == Init /\ [][Next]_vars

(***************************************************************************)
(* The constructor's loop, `while (!this.state.isFinal()) {                *)
(* this.state.handle(); } this.state.handle();`, runs without yielding:    *)
(* while a call is under way the handler of its state is run.  SpecLoop    *)
(* is Spec with WF_vars(Handle), the weak fairness written out with what   *)
(* ENABLED <<Handle>>_vars comes to: a call is under way.                  *)
(***************************************************************************)
Handle ==
    \/ HandleCodeblockStart
    \/ HandlePair
    \/ HandlePairContent
    \/ HandleNestedStart
    \/ HandleNestedContent
    \/ HandleNestedEnd
    \/ HandleCodeblockEnd
    \/ HandleParsingError

SpecLoop ==
    Init /\ [][Next]_vars /\ ([]<>(pc # "running") \/ []<><<Handle>>_vars)

(***************************************************************************)
(* The first fromString call of a module instance: MATCHERS is as the      *)
(* module built it, the NestedEnd rule's regex is null.                    *)
(***************************************************************************)
NextFirstCall ==
    \/ FromString
    \/ HandleCodeblockStart
    \/ HandlePair
    \/ HandlePairContent
    \/ HandleNestedStart
    \/ HandleNestedContent
    \/ HandleNestedEnd
    \/ HandleCodeblockEnd
    \/ HandleParsingError

SpecFirstCall == Init /\ [][NextFirstCall]_vars

(***************************************************************************)
(* A caller that writes the list a call returned out again, one            *)
(* "key: value" per property, and parses that text.                        *)
(***************************************************************************)
\* The properties ps as text: key, colon, blank, value, joined by \n.
Serialize(ps) ==
    Join([ i \in 1..Len(ps) |-> ps[i].key \o << ":", " " >> \o ps[i].value ], << "\n" >>)

\* The caller keeps the list, drops the parser and calls fromString on the
\* list's text.
Reparse ==
    /\ pc = "returned"
    /\ kept = <<>>
    /\ kept' = << pairs >>
    /\ Construct(Serialize(pairs))
    /\ UNCHANGED << templateVars, buildVars, pairVars, tableVars, fillVars >>

NextReparse ==
    \/ FromString
    \/ HandleCodeblockStart
    \/ HandlePair
    \/ HandlePairContent
    \/ HandleNestedStart
    \/ HandleNestedContent
    \/ HandleNestedEnd
    \/ HandleCodeblockEnd
    \/ HandleParsingError
    \/ Leave
    \/ Reparse

SpecReparse == Init /\ [][NextReparse]_vars

(***************************************************************************)
(* handlebar.ts: SYNTAX_LIBRARY.  Each syntax's expression tried at the    *)
(* 1-based position i of s yields <<>> for no match there and the match    *)
(* array <<whole, group 1, ...>> otherwise.                                *)
(***************************************************************************)
UpperChars == { "A", "B", "C", "D", "E", "F", "G", "H", "I", "J", "K", "L", "M",
                "N", "O", "P", "Q", "R", "S", "T", "U", "V", "W", "X", "Y", "Z" }

\* [a-zA-Z0-9\-]
NameCharsWithDigits == KeyChars \cup UpperChars \cup { "0", "1", "2", "3", "4", "5", "6", "7", "8", "9" }

\* [a-zA-Z\-]
NameChars == KeyChars \cup UpperChars

\* Does s hold the characters of lit from position i on?
StartsWith(s, i, lit) ==
    /\ i + Len(lit) - 1 <= Len(s)
    /\ \A j \in 1..Len(lit) : s[i + j - 1] = lit[j]

\* The part every syntax begins with, \{\{\s*([a-zA-Z\-]+)\s*, at position i:
\* <<>> or << the name, the position after the blanks that follow it >>.
NameAt(s, i) ==
    IF ~StartsWith(s, i, << "{", "{" >>) THEN <<>>
    ELSE LET a  == Drop(s, i + 1)
             w1 == PrefixLen(a, Whitespace)
             b  == Drop(a, w1)
             k  == PrefixLen(b, NameChars)
             w2 == PrefixLen(Drop(b, k), Whitespace)
         IN  IF k = 0 THEN <<>>
             ELSE << SubSeq(b, 1, k), i + 2 + w1 + k + w2 >>

\* /\{\{\s*([a-zA-Z\-]+)\s*\}\}/
RequiredAt(s, i) ==
    LET n == NameAt(s, i)
    IN  IF n # <<>> /\ StartsWith(s, n[2], << "}", "}" >>)
        THEN << SubSeq(s, i, n[2] + 1), n[1] >>
        ELSE <<>>

\* /\{\{\s*([a-zA-Z\-]+)\s*\?\s*\}\}/
OptionalAt(s, i) ==
    LET n == NameAt(s, i)
    IN  IF n = <<>> \/ ~StartsWith(s, n[2], << "?" >>) THEN <<>>
        ELSE LET e == n[2] + 1 + PrefixLen(Drop(s, n[2]), Whitespace)
             IN  IF StartsWith(s, e, << "}", "}" >>)
                 THEN << SubSeq(s, i, e + 1), n[1] >>
                 ELSE <<>>

\* Length of the longest prefix of s without a closing brace: [^\}]*
NoBraceLen(s) ==
    LET stop == { j \in 1..Len(s) : s[j] = "}" }
    IN  IF stop = {} THEN Len(s) ELSE Min(stop) - 1

\* /\{\{\s*([a-zA-Z\-]+)\s*\|\s*([^\}]+)\s*\}\}/ : [^\}]+ runs to the first
\* closing brace, which must begin the closing pair; the \s* before it takes
\* the leading blanks but leaves it one character when there is nothing else.
FallbackAt(s, i) ==
    LET n == NameAt(s, i)
    IN  IF n = <<>> \/ ~StartsWith(s, n[2], << "|" >>) THEN <<>>
        ELSE LET rest == Drop(s, n[2])
                 p    == NoBraceLen(rest)
                 w    == Min({ PrefixLen(rest, Whitespace), p - 1 })
             IN  IF p >= 1 /\ StartsWith(rest, p + 1, << "}", "}" >>)
                 THEN << SubSeq(s, i, n[2] + p + 2), n[1], SubSeq(rest, w + 1, p) >>
                 ELSE <<>>

\* The library's keys in Map order.
SYNTAX_LIBRARY == << "required", "optional", "fallback" >>

\* syntax.regex tried at position i.
SyntaxAt(name, s, i) ==
    CASE name = "required" -> RequiredAt(s, i)
      [] name = "optional" -> OptionalAt(s, i)
      [] name = "fallback" -> FallbackAt(s, i)

\* syntax.regex.exec(s) for the (non-global) expression of one syntax: the
\* leftmost match.
SyntaxExec(name, s) ==
    LET at == { i \in 1..Len(s) : SyntaxAt(name, s, i) # <<>> }
    IN  IF at = {} THEN <<>>
        ELSE CHOOSE m \in { SyntaxAt(name, s, i) : i \in { Min(at) } } : TRUE

(***************************************************************************)
(* token.ts: the token classes.  fallback is <<>> for undefined and <<the   *)
(* string>> otherwise.                                                     *)
(***************************************************************************)
TextToken(content) ==
    [ type |-> "text", class |-> "TextToken", content |-> content,
      key |-> <<>>, fallback |-> <<>> ]

HandlebarToken(class, key, fallback) ==
    [ type |-> "handlebar", class |-> class, content |-> <<>>,
      key |-> key, fallback |-> fallback ]

RequiredToken(key) == HandlebarToken("RequiredToken", key, <<>>)

\* OptionalToken without its fallback.
OptionalTokenNoFallback(key) == HandlebarToken("OptionalToken", key, <<>>)

OptionalToken(key) == HandlebarToken("OptionalToken", key, << <<>> >>)

FallbackToken(key, fallback) == HandlebarToken("FallbackToken", key, << fallback >>)

\* toToken without the trim of the captured groups.
toTokenUntrimmed(name, m) ==
    CASE name = "required" -> RequiredToken(m[2])
      [] name = "optional" -> OptionalToken(m[2])
      [] name = "fallback" -> FallbackToken(m[2], m[3])

\* HandlebarSyntax.toToken of the syntax called name, on its match array m.
toToken(name, m) ==
    CASE name = "required" -> RequiredToken(Trim(m[2]))
      [] name = "optional" -> OptionalToken(Trim(m[2]))
      [] name = "fallback" -> FallbackToken(Trim(m[2]), Trim(m[3]))

(***************************************************************************)
(* template-engine/parser.ts: TemplateParser.                              *)
(***************************************************************************)
\* masterRegex.exec(s) with lastIndex = from (0-based): the leftmost position
\* at which an alternative matches, and there the first alternative in
\* library order; <<>> is null, else <<[index, text, syntax]>> with the
\* 0-based match.index, match[0] and the named group that is defined.
masterExec(s, from) ==
    LET at == { i \in (from + 1)..Len(s) :
                  \E r \in 1..Len(SYNTAX_LIBRARY) : SyntaxAt(SYNTAX_LIBRARY[r], s, i) # <<>> }
    IN  IF at = {} THEN <<>>
        ELSE CHOOSE m \in
               { << [ index  |-> i - 1,
                      text   |-> SyntaxAt(SYNTAX_LIBRARY[r], s, i)[1],
                      syntax |-> SYNTAX_LIBRARY[r] ] >> :
                 << i, r >> \in
                   { << j, q >> \in { Min(at) } \X (1..Len(SYNTAX_LIBRARY)) :
                       /\ SyntaxAt(SYNTAX_LIBRARY[q], s, j) # <<>>
                       /\ \A o \in 1..(q - 1) : SyntaxAt(SYNTAX_LIBRARY[o], s, j) = <<>> } } : TRUE

\* tokenBeforeMatch that never gives a token.
tokenBeforeMatchNone(idx, m, src) == <<>>

\* TemplateParser.tokenBeforeMatch: <<>> is null.
tokenBeforeMatch(idx, m, src) ==
    IF m.index > idx THEN << TextToken(SubSeq(src, idx + 1, m.index)) >> ELSE <<>>

\* TemplateParser.tokenFromMatch: <<the token>>, or <<>> when the syntax's own
\* expression does not match the text the master expression matched (throw).
tokenFromMatch(m) ==
    LET innerMatch == SyntaxExec(m.syntax, m.text)
    IN  IF innerMatch = <<>> THEN <<>> ELSE << toToken(m.syntax, innerMatch) >>

\* tokenAfterParse trimming the rest.
tokenAfterParseTrimmed(idx, src) ==
    IF idx < Len(src) THEN << TextToken(Trim(Drop(src, idx))) >> ELSE <<>>

\* tokenAfterParse returning a token for an empty rest as well.
tokenAfterParseAlways(idx, src) == << TextToken(Drop(src, idx)) >>

\* TemplateParser.tokenAfterParse: <<>> is null.
tokenAfterParse(idx, src) ==
    IF idx < Len(src) THEN << TextToken(Drop(src, idx)) >> ELSE <<>>

(***************************************************************************)
(* Inputs of the template engine: templates are up to MaxFragments         *)
(* fragments of the pool written one after the other, codeblocks are the   *)
(* property lists of Codeblocks.                                           *)
(***************************************************************************)
MaxFragments == 3

FragmentPool ==
    { << "<", "h", "1", ">", "{", "{", " ", "t", "i", "t", "l", "e", " ", "}", "}", "<", "/", "h", "1", ">" >>,  \* <h1>{{ title }}</h1>
      << "<", "p", ">", "{", "{", " ", "c", "o", "n", "t", "e", "n", "t", " ", "|", " ", "n", "o", "t", "h", "i", "n", "g", " ", "}", "}", "<", "/", "p", ">" >>,  \* <p>{{ content | nothing }}</p>
      << "{", "{", "t", "i", "t", "l", "e", "}", "}" >>,  \* {{title}}
      << "{", "{", " ", "c", "o", "n", "t", "e", "n", "t", " ", "?", " ", "}", "}" >>,  \* {{ content ? }}
      << "{", "{", "c", "o", "n", "t", "e", "n", "t", "?", "}", "}" >>,  \* {{content?}}
      << "{", "{", "c", "o", "n", "t", "e", "n", "t", "|", "n", "o", "t", "h", "i", "n", "g", "}", "}" >>,  \* {{content|nothing}}
      << "{", "{", " ", "t", "i", "t", "l", "e", " ", "|", " ", "n", "o", " ", "t", "i", "t", "l", "e", " ", "}", "}" >>,  \* {{ title | no title }}
      << "{", "{", " ", "a", " ", "b", " ", "}", "}" >>,  \* {{ a b }}
      << "{", "{", " ", "t", "1", " ", "}", "}" >>,  \* {{ t1 }}
      << "{", "{", "t", "i", "t", "l", "e", "|", "}", "}" >>,  \* {{title|}}
      << " ", "H", "i", " " >>,  \*  Hi 
      << "{", "{", " ", "t", "i", "t", "l", "e", " ", "|", " ", "}", "}" >>,  \* {{ title | }}
      << "{", "{", "n", "a", "m", "e", "}", "}" >> }  \* {{name}}

Templates ==
    { Join(fs, <<>>) : fs \in UNION { [1..n -> FragmentPool] : n \in 0..MaxFragments } }

Title == << "t", "i", "t", "l", "e" >>
Content == << "c", "o", "n", "t", "e", "n", "t" >>
Hello == << "H", "e", "l", "l", "o" >>
World == << "W", "o", "r", "l", "d" >>
Name == << "n", "a", "m", "e" >>

Codeblocks ==
    { <<>>,
      << CodeblockProperty(Title, Hello) >>,
      << CodeblockProperty(Content, World) >>,
      << CodeblockProperty(Title, Hello), CodeblockProperty(Content, World) >>,
      << CodeblockProperty(Content, << "<", "b", ">" >>), CodeblockProperty(Title, World) >>,
      << CodeblockProperty(Title, Hello), CodeblockProperty(Title, << "a", "&", "b" >>) >>,
      << CodeblockProperty(Name, << "{", "{", "c", "o", "n", "t", "e", "n", "t", "}", "}" >>),
         CodeblockProperty(Title, Hello), CodeblockProperty(Content, World) >> }

(***************************************************************************)
(* property.ts: CodeblockProperty.wrap.  utils/html (escapeHTML) is not    *)
(* among the sources.  What the sources tell of it: wrap passes the value  *)
(* through it, the tests have it leave letters as they are (Alice, Hi in   *)
(* temp-compiler.test.ts), and the compiler emits a value's braces as they *)
(* stand.  What it writes for the characters with a meaning in HTML is not *)
(* known, and no entity is assumed: for each of them the model writes one  *)
(* character of its own, named after the call, that stands for whatever    *)
(* text escapeHTML gives.                                                  *)
(***************************************************************************)
RECURSIVE escapeHTML(_)
escapeHTML(s) ==
    IF s = <<>> THEN <<>>
    ELSE (CASE s[1] = "&"  -> << "escapeHTML(&)" >>
            [] s[1] = "<"  -> << "escapeHTML(<)" >>
            [] s[1] = ">"  -> << "escapeHTML(>)" >>
            [] s[1] = "\"" -> << "escapeHTML(\")" >>
            [] s[1] = "'"  -> << "escapeHTML(')" >>
            [] OTHER       -> << s[1] >>) \o escapeHTML(Tail(s))

\* CodeblockProperty.wrap
wrap(p) ==
    << "<", "d", "i", "v", " ", "c", "l", "a", "s", "s", "=", "\"", "c", "f", "-", "m", "a", "r", "k", "d", "o", "w", "n", "\"", ">" >>
    \o escapeHTML(p.value) \o << "<", "/", "d", "i", "v", ">" >>

(***************************************************************************)
(* compiler.ts and token.ts: TemplateCompiler.compile.                     *)
(***************************************************************************)
MissingValueError(key) ==
    [ Error("Missing value for required key \"<key>\"") EXCEPT !.keys = key ]

\* A lookup that answers a key the list does not hold with the last entry.
pairMapGetOrLast(cb, key) ==
    LET at == { i \in 1..Len(cb) : cb[i].key = key }
    IN  IF cb = <<>> THEN <<>>
        ELSE IF at = {} THEN << cb[Len(cb)] >> ELSE << cb[Max(at)] >>

\* A lookup that looks at the first entry only.
pairMapGetHead(cb, key) ==
    IF cb # <<>> /\ cb[1].key = key THEN << cb[1] >> ELSE <<>>

\* new Map(codeblock.map(pair => [pair.key, pair])).get(key): a later entry
\* of the same key replaces an earlier one; <<>> is undefined.
pairMapGet(cb, key) ==
    LET at == { i \in 1..Len(cb) : cb[i].key = key }
    IN  IF at = {} THEN <<>> ELSE << cb[Max(at)] >>

\* normalize emitting the value of the property as it is.
normalizeUnwrapped(token, p) ==
    IF p # <<>> THEN << TextToken(p[1].value) >>
    ELSE IF token.fallback # <<>> THEN << TextToken(token.fallback[1]) >>
    ELSE <<>>

\* normalize giving a token without fallback the empty text.
normalizeLenient(token, p) ==
    IF p # <<>> THEN << TextToken(wrap(p[1])) >>
    ELSE IF token.fallback # <<>> THEN << TextToken(token.fallback[1]) >>
    ELSE << TextToken(<<>>) >>

\* normalize taking the fallback of the first token of the template that
\* has the same key.
normalizeSharedFallback(token, p) ==
    IF p # <<>> THEN << TextToken(wrap(p[1])) >>
    ELSE IF token.fallback # <<>>
         THEN << TextToken(tokens[Min({ i \in 1..Len(tokens) : tokens[i].key = token.key })].fallback[1]) >>
    ELSE <<>>

\* normalize reading a value that is itself a required placeholder as the
\* name of another property of the codeblock.
normalizeExpanding(token, p) ==
    IF p # <<>>
    THEN CHOOSE t \in
           { IF inner # <<>> /\ pairMapGet(codeblock, Trim(inner[2])) # <<>>
             THEN << TextToken(wrap(pairMapGet(codeblock, Trim(inner[2]))[1])) >>
             ELSE << TextToken(wrap(p[1])) >> :
             inner \in { RequiredAt(p[1].value, 1) } } : TRUE
    ELSE IF token.fallback # <<>> THEN << TextToken(token.fallback[1]) >>
    ELSE <<>>

\* normalize wrapping the fallback as it wraps a value.
normalizeWrappingFallback(token, p) ==
    IF p # <<>> THEN << TextToken(wrap(p[1])) >>
    ELSE IF token.fallback # <<>>
         THEN << TextToken(wrap(CodeblockProperty(token.key, token.fallback[1]))) >>
    ELSE <<>>

\* normalize taking a property with an empty value for a missing one.
normalizeEmptyAsAbsent(token, p) ==
    IF p # <<>> /\ p[1].value # <<>> THEN << TextToken(wrap(p[1])) >>
    ELSE IF token.fallback # <<>> THEN << TextToken(token.fallback[1]) >>
    ELSE <<>>

\* HandlebarToken.normalize: <<the TextToken>>, or <<>> for the throw.
normalize(token, p) ==
    IF p # <<>> THEN << TextToken(wrap(p[1])) >>
    ELSE IF token.fallback # <<>> THEN << TextToken(token.fallback[1]) >>
    ELSE <<>>

\* compiledTokens.map(token => token.content).join("")
RECURSIVE joinContents(_)
joinContents(ts) ==
    IF ts = <<>> THEN <<>> ELSE ts[1].content \o joinContents(Tail(ts))

(***************************************************************************)
(* Actions of the template engine.                                         *)
(***************************************************************************)
\* TemplateParser.parse(src) up to the loop: index = 0, tokens = [].
ParseBegin(src) ==
    /\ tplSource' = src
    /\ tplIndex' = 0
    /\ tokens' = <<>>
    /\ tplMatch' = <<>>
    /\ tplPc' = "parsing"
    /\ UNCHANGED << codeblock, compiledTokens, compiledTemplate, tplThrown, compiledBefore >>

\* TemplateParser.parse on any template, once no call is under way.
Parse ==
    /\ tplPc = "idle"
    /\ \E src \in Templates : ParseBegin(src)
    /\ UNCHANGED << parserVars, buildVars, pairVars, tableVars, fillVars >>

\* One turn of the while loop: masterRegex.exec found the match m (its
\* lastIndex is the end of the match before, which is index).
ParseMatch ==
    /\ tplPc = "parsing"
    /\ \E m \in { masterExec(tplSource, tplIndex) } :
         /\ m # <<>>
         /\ \E t \in { tokenFromMatch(m[1]) } :
              IF t = <<>>
              THEN /\ tplThrown' = Error("Syntax regex did not match its own substring.")
                   /\ tplPc' = "failed"
                   /\ UNCHANGED << tokens, tplIndex, tplMatch >>
              ELSE /\ tokens' = tokens \o tokenBeforeMatch(tplIndex, m[1], tplSource) \o t
                   /\ tplIndex' = m[1].index + Len(m[1].text)
                   /\ tplMatch' = m
                   /\ UNCHANGED << tplPc, tplThrown >>
    /\ UNCHANGED << tplSource, codeblock, compiledTokens, compiledTemplate, compiledBefore >>
    /\ UNCHANGED << parserVars, buildVars, pairVars, tableVars, fillVars >>

\* masterRegex.exec returned null: the rest of the text, and the return.
ParseEnd ==
    /\ tplPc = "parsing"
    /\ masterExec(tplSource, tplIndex) = <<>>
    /\ tokens' = tokens \o tokenAfterParse(tplIndex, tplSource)
    /\ tplPc' = "parsed"
    /\ UNCHANGED << tplSource, tplIndex, tplMatch, codeblock, compiledTokens,
                    compiledTemplate, tplThrown, compiledBefore >>
    /\ UNCHANGED << parserVars, buildVars, pairVars, tableVars, fillVars >>

\* TemplateCompiler.compile(tokens, cb) up to template.map.
CompileBegin(cb) ==
    /\ codeblock' = cb
    /\ compiledTokens' = <<>>
    /\ tplPc' = "compiling"
    /\ UNCHANGED << tplSource, tplIndex, tplMatch, tokens, compiledTemplate, tplThrown,
                    compiledBefore >>

\* TemplateCompiler.compile of the parsed template with any codeblock.
Compile ==
    /\ tplPc = "parsed"
    /\ \E cb \in Codeblocks : CompileBegin(cb)
    /\ UNCHANGED << parserVars, buildVars, pairVars, tableVars, fillVars >>

\* The callback of template.map on the next token.
CompileToken ==
    /\ tplPc = "compiling"
    /\ Len(compiledTokens) < Len(tokens)
    /\ LET token == tokens[Len(compiledTokens) + 1]
       IN  IF token.type = "handlebar"
           THEN LET t == normalize(token, pairMapGet(codeblock, token.key))
                IN  IF t = <<>>
                    THEN /\ tplThrown' = MissingValueError(token.key)
                         /\ tplPc' = "failed"
                         /\ UNCHANGED compiledTokens
                    ELSE /\ compiledTokens' = compiledTokens \o t
                         /\ UNCHANGED << tplPc, tplThrown >>
           ELSE /\ compiledTokens' = Append(compiledTokens, token)
                /\ UNCHANGED << tplPc, tplThrown >>
    /\ UNCHANGED << tplSource, tplIndex, tplMatch, tokens, codeblock, compiledTemplate,
                    compiledBefore >>
    /\ UNCHANGED << parserVars, buildVars, pairVars, tableVars, fillVars >>

\* The join of the contents and the return of compile.
CompileJoin ==
    /\ tplPc = "compiling"
    /\ Len(compiledTokens) = Len(tokens)
    /\ compiledTemplate' = << joinContents(compiledTokens) >>
    /\ tplPc' = "compiled"
    /\ UNCHANGED << tplSource, tplIndex, tplMatch, tokens, codeblock, compiledTokens,
                    tplThrown, compiledBefore >>
    /\ UNCHANGED << parserVars, buildVars, pairVars, tableVars, fillVars >>

\* The call has returned or thrown and its caller drops what it left.
TemplateLeave ==
    /\ tplPc \in {"compiled", "failed"}
    /\ tplPc' = "idle"
    /\ tplSource' = <<>>
    /\ tplIndex' = 0
    /\ tplMatch' = <<>>
    /\ tokens' = <<>>
    /\ codeblock' = <<>>
    /\ compiledTokens' = <<>>
    /\ compiledTemplate' = <<>>
    /\ tplThrown' = NoError
    /\ compiledBefore' = <<>>
    /\ UNCHANGED << parserVars, buildVars, pairVars, tableVars, fillVars >>

TemplateNext ==
    \/ Parse
    \/ ParseMatch
    \/ ParseEnd
    \/ Compile
    \/ CompileToken
    \/ CompileJoin
    \/ TemplateLeave

SpecTemplate == Init /\ [][TemplateNext]_vars

(***************************************************************************)
(* A caller whose codeblock holds properties with an empty value, as the   *)
(* codeblock parser gives for a line "title:" that no text follows.        *)
(***************************************************************************)
EmptyValued ==
    { << CodeblockProperty(Title, <<>>), CodeblockProperty(Content, <<>>) >>,
      << CodeblockProperty(Title, Hello), CodeblockProperty(Title, <<>>) >>,
      << CodeblockProperty(Content, <<>>) >> }

\* TemplateCompiler.compile of the parsed template with such a codeblock.
CompileEmptyValued ==
    /\ tplPc = "parsed"
    /\ \E cb \in EmptyValued : CompileBegin(cb)
    /\ UNCHANGED << parserVars, buildVars, pairVars, tableVars, fillVars >>

NextEmptyValued ==
    \/ Parse
    \/ ParseMatch
    \/ ParseEnd
    \/ CompileEmptyValued
    \/ CompileToken
    \/ CompileJoin
    \/ TemplateLeave

SpecEmptyValued == Init /\ [][NextEmptyValued]_vars

(***************************************************************************)
(* A caller that compiles the tokens a second time, with the properties    *)
(* of the first compile put in another order, or with one of them left     *)
(* out, or with one more.                                                  *)
(***************************************************************************)
\* The lists that hold the entries of cb in any order.
Reorderings(cb) ==
    { [ i \in 1..Len(cb) |-> cb[f[i]] ] :
        f \in { g \in [1..Len(cb) -> 1..Len(cb)] :
                  \A i, j \in 1..Len(cb) : g[i] = g[j] => i = j } }

\* cb without its i-th entry.
Without(cb, i) == SubSeq(cb, 1, i - 1) \o SubSeq(cb, i + 1, Len(cb))

\* The properties a caller may add.
MoreProperties == { CodeblockProperty(Name, Hello) }

\* The codeblocks of the second compile.
Rearranged(cb) ==
    (Reorderings(cb) \ { cb })
      \cup { Without(cb, i) : i \in 1..Len(cb) }
      \cup { Append(cb, p) : p \in MoreProperties }

\* The caller keeps what compile(tokens, codeblock) gave and calls compile
\* on the same tokens with another codeblock.
Recompile ==
    /\ tplPc \in {"compiled", "failed"}
    /\ compiledBefore = <<>>
    /\ \E cb \in Rearranged(codeblock) :
         /\ compiledBefore' = << [ codeblock        |-> codeblock,
                                    compiledTemplate |-> compiledTemplate,
                                    thrown           |-> tplThrown ] >>
         /\ codeblock' = cb
    /\ compiledTokens' = <<>>
    /\ compiledTemplate' = <<>>
    /\ tplThrown' = NoError
    /\ tplPc' = "compiling"
    /\ UNCHANGED << tplSource, tplIndex, tplMatch, tokens >>
    /\ UNCHANGED << parserVars, buildVars, pairVars, tableVars, fillVars >>

NextRecompile ==
    \/ Parse
    \/ ParseMatch
    \/ ParseEnd
    \/ Compile
    \/ CompileToken
    \/ CompileJoin
    \/ TemplateLeave
    \/ Recompile

SpecRecompile == Init /\ [][NextRecompile]_vars

(***************************************************************************)
(* template-module/token.ts: Token and its subclasses.  defaultValue is    *)
(* <<>> where the class has no such field and <<the string>> otherwise.    *)
(***************************************************************************)
\* new RequiredToken(name), new OptionalToken(name), new DefaultedToken(name,
\* defaultValue): the constructors trim the name and the default.
Token(class, name, defaultValue) ==
    [ class |-> class, name |-> Trim(name),
      defaultValue |-> CASE class = "RequiredToken"  -> <<>>
                         [] class = "OptionalToken"  -> << <<>> >>
                         [] class = "DefaultedToken" -> << Trim(defaultValue) >> ]

\* Token.isSameSubclass
isSameSubclass(this, other) == this.class = other.class

\* isEquivalentTo of Token, which DefaultedToken does not override.
isEquivalentToBase(this, other) ==
    isSameSubclass(this, other) /\ this.name = other.name

\* Token.isEquivalentTo, and its override in DefaultedToken.
isEquivalentTo(this, other) ==
    IF this.class = "DefaultedToken"
    THEN /\ isSameSubclass(this, other) /\ this.name = other.name
         /\ other.class = "DefaultedToken"
         /\ this.defaultValue = other.defaultValue
    ELSE isSameSubclass(this, other) /\ this.name = other.name

(***************************************************************************)
(* template/template.ts: Template.                                        *)
(***************************************************************************)
\* Template._tokenSyntaxes: the names, in order.  The three expressions are
\* those of SYNTAX_LIBRARY, in the same order.
tokenSyntaxes == << "required", "optional", "default" >>

\* The expression of the syntax called name, tried at position i.
tokenSyntaxAt(name, s, i) ==
    CASE name = "required" -> RequiredAt(s, i)
      [] name = "optional" -> OptionalAt(s, i)
      [] name = "default"  -> FallbackAt(s, i)

\* syntax.regex.exec(s): the leftmost match.
tokenSyntaxExec(name, s) ==
    LET at == { i \in 1..Len(s) : tokenSyntaxAt(name, s, i) # <<>> }
    IN  IF at = {} THEN <<>>
        ELSE CHOOSE m \in { tokenSyntaxAt(name, s, i) : i \in { Min(at) } } : TRUE

\* syntax.extract(match)
extract(name, m) ==
    CASE name = "required" -> Token("RequiredToken", m[2], <<>>)
      [] name = "optional" -> Token("OptionalToken", m[2], <<>>)
      [] name = "default"  -> Token("DefaultedToken", m[2], m[3])

\* combinedRegex.exec(s) with lastIndex = from (0-based): the leftmost
\* position an alternative matches at, and there the first group in the
\* order of the syntaxes; <<>> is null.
combinedExec(s, from) ==
    LET at == { i \in (from + 1)..Len(s) :
                  \E r \in 1..Len(tokenSyntaxes) : tokenSyntaxAt(tokenSyntaxes[r], s, i) # <<>> }
    IN  IF at = {} THEN <<>>
        ELSE CHOOSE m \in
               { << [ index  |-> i - 1,
                      text   |-> tokenSyntaxAt(tokenSyntaxes[r], s, i)[1],
                      syntax |-> tokenSyntaxes[r] ] >> :
                 << i, r >> \in
                   { << j, q >> \in { Min(at) } \X (1..Len(tokenSyntaxes)) :
                       /\ tokenSyntaxAt(tokenSyntaxes[q], s, j) # <<>>
                       /\ \A o \in 1..(q - 1) : tokenSyntaxAt(tokenSyntaxes[o], s, j) = <<>> } } : TRUE

\* Template._scanTemplateString from lastIndex = from on: one TokenMatch for
\* each match whose syntax matches the matched text on its own.
RECURSIVE scanTemplateString(_, _)
scanTemplateString(s, from) ==
    CHOOSE ms \in
      { IF m = <<>> THEN <<>>
        ELSE (CHOOSE one \in
                { IF innerMatch = <<>> THEN <<>>
                  ELSE << [ token    |-> extract(m[1].syntax, innerMatch),
                            original |-> m[1].text,
                            index    |-> m[1].index ] >> :
                  innerMatch \in { tokenSyntaxExec(m[1].syntax, m[1].text) } } : TRUE)
             \o scanTemplateString(s, m[1].index + Len(m[1].text)) :
        m \in { combinedExec(s, from) } } : TRUE

TokenTypeConflict(name) ==
    [ Error("Token conflict: Token '<name>' exists with a different type.")
        EXCEPT !.keys = name ]
TokenPropertiesConflict(name) ==
    [ Error("Token conflict: Token '<name>' exists with different properties.")
        EXCEPT !.keys = name ]

\* tokens.find(t => t.name === name): <<>> is undefined.
findToken(ts, name) ==
    LET at == { i \in 1..Len(ts) : ts[i].name = name }
    IN  IF at = {} THEN <<>> ELSE << ts[Min(at)] >>

\* new Template(src) up to the loop of _build: the trim and the scan.
TemplateConstruct(src) ==
    /\ sourceString' = Trim(src)
    /\ tokenMatches' = scanTemplateString(Trim(src), 0)
    /\ buildIndex' = 0
    /\ buildTokens' = <<>>
    /\ buildThrown' = NoError
    /\ buildPc' = "building"

\* Template.fromString on any template, once no call is under way.
TemplateFromString ==
    /\ buildPc = "idle"
    /\ \E src \in Templates : TemplateConstruct(src)
    /\ UNCHANGED << parserVars, templateVars, pairVars, tableVars, fillVars >>

\* One turn of the for loop of _build.
BuildToken ==
    /\ buildPc = "building"
    /\ buildIndex < Len(tokenMatches)
    /\ \E token \in { tokenMatches[buildIndex + 1].token } :
         \E existingToken \in { findToken(buildTokens, token.name) } :
           IF existingToken # <<>>
           THEN IF ~isSameSubclass(existingToken[1], token)
                THEN /\ buildThrown' = TokenTypeConflict(token.name)
                     /\ buildPc' = "failed"
                     /\ UNCHANGED << buildIndex, buildTokens >>
                ELSE IF ~isEquivalentTo(existingToken[1], token)
                THEN /\ buildThrown' = TokenPropertiesConflict(token.name)
                     /\ buildPc' = "failed"
                     /\ UNCHANGED << buildIndex, buildTokens >>
                ELSE /\ buildIndex' = buildIndex + 1
                     /\ UNCHANGED << buildTokens, buildPc, buildThrown >>
           ELSE /\ buildTokens' = Append(buildTokens, token)
                /\ buildIndex' = buildIndex + 1
                /\ UNCHANGED << buildPc, buildThrown >>
    /\ UNCHANGED << sourceString, tokenMatches >>
    /\ UNCHANGED << parserVars, templateVars, pairVars, tableVars, fillVars >>

\* The loop is over: this._tokens = tokens, and the constructor returns.
BuildEnd ==
    /\ buildPc = "building"
    /\ buildIndex = Len(tokenMatches)
    /\ buildPc' = "built"
    /\ UNCHANGED << sourceString, tokenMatches, buildIndex, buildTokens, buildThrown >>
    /\ UNCHANGED << parserVars, templateVars, pairVars, tableVars, fillVars >>

\* The call has returned or thrown and its caller drops what it left.
BuildLeave ==
    /\ buildPc \in {"built", "failed"}
    /\ buildPc' = "idle"
    /\ sourceString' = <<>>
    /\ tokenMatches' = <<>>
    /\ buildIndex' = 0
    /\ buildTokens' = <<>>
    /\ buildThrown' = NoError
    /\ UNCHANGED << parserVars, templateVars, pairVars, tableVars, fillVars >>

NextBuild ==
    \/ TemplateFromString
    \/ BuildToken
    \/ BuildEnd
    \/ BuildLeave

SpecBuild == Init /\ [][NextBuild]_vars

(***************************************************************************)
(* template/template.ts: normalizedTemplateString and fill, and a caller   *)
(* that fills the template it has built.                                   *)
(***************************************************************************)
\* new MarkdownRenderedProperty(name, value)
MarkdownRenderedProperty(name, value) == [ name |-> name, value |-> value ]

\* The lists of rendered properties a caller passes to fill.
PropertyLists ==
    { << MarkdownRenderedProperty(<< " ", "t", "i", "t", "l", "e", " " >>, Hello),
         MarkdownRenderedProperty(Title, World), MarkdownRenderedProperty(Content, Hello) >>,
      << MarkdownRenderedProperty(Title, << "{", "{", " ", "c", "o", "n", "t", "e", "n", "t", " ", "}", "}" >>),
         MarkdownRenderedProperty(Content, World) >>,
      << MarkdownRenderedProperty(Title, << "$", "&" >>),
         MarkdownRenderedProperty(Content, << "a", "$", "$", "b" >>) >> }

\* String.prototype.replace's reading of the replacement string for one
\* match of an expression without groups: $$ is "$", $& the matched text,
\* $ and a backtick the text before the match, $' the text after it.
RECURSIVE getSubstitution(_, _, _, _)
getSubstitution(replacement, matched, before, after) ==
    IF replacement = <<>> THEN <<>>
    ELSE IF /\ replacement[1] = "$"
            /\ Len(replacement) >= 2
            /\ replacement[2] \in { "$", "&", Tick, "'" }
         THEN (CASE replacement[2] = "$"  -> << "$" >>
                 [] replacement[2] = "&"  -> matched
                 [] replacement[2] = Tick -> before
                 [] replacement[2] = "'"  -> after)
              \o getSubstitution(Drop(replacement, 2), matched, before, after)
         ELSE << replacement[1] >> \o getSubstitution(Tail(replacement), matched, before, after)

\* s.replace(new RegExp(escaped pattern, 'g'), replacement) from position i
\* of s on: the escapes make the expression match the pattern's own text.
RECURSIVE replaceFrom(_, _, _, _)
replaceFrom(s, pattern, replacement, i) ==
    IF i > Len(s) THEN <<>>
    ELSE IF /\ pattern # <<>>
            /\ i + Len(pattern) - 1 <= Len(s)
            /\ SubSeq(s, i, i + Len(pattern) - 1) = pattern
         THEN getSubstitution(replacement, pattern, SubSeq(s, 1, i - 1),
                              SubSeq(s, i + Len(pattern), Len(s)))
              \o replaceFrom(s, pattern, replacement, i + Len(pattern))
         ELSE << s[i] >> \o replaceFrom(s, pattern, replacement, i + 1)

replace(s, pattern, replacement) == replaceFrom(s, pattern, replacement, 1)

\* `{{ ${name} }}`
placeholder(name) == << "{", "{", " " >> \o name \o << " ", "}", "}" >>

\* The for loop of normalizedTemplateString over the matches ms.
RECURSIVE normalizeMatches(_, _)
normalizeMatches(normalized, ms) ==
    IF ms = <<>> THEN normalized
    ELSE normalizeMatches(replace(normalized, ms[1].original, placeholder(ms[1].token.name)),
                          Tail(ms))

\* Template.normalizedTemplateString
normalizedTemplateString(src) == normalizeMatches(src, scanTemplateString(src, 0))

\* The for loop that fills renderedMap: a later property of a name replaces
\* an earlier one.
renderedMapOf(props) ==
    [ key \in { Trim(props[i].name) : i \in 1..Len(props) } |->
        props[Max({ i \in 1..Len(props) : Trim(props[i].name) = key })].value ]

MissingRenderedError(missing) ==
    [ Error("Missing rendered values for tokens: <missingTokens>")
        EXCEPT !.keys = Join(missing, << ",", " " >>) ]

\* fill(props) up to the loop over this.tokens.
FillBegin(props) ==
    /\ properties' = props
    /\ renderedMap' = renderedMapOf(props)
    /\ filled' = normalizedTemplateString(sourceString)
    /\ missingTokens' = <<>>
    /\ fillIndex' = 0
    /\ fillThrown' = NoError
    /\ fillPc' = "filling"

\* Template.fill on the template built, with any list of properties.
Fill ==
    /\ buildPc = "built"
    /\ fillPc = "idle"
    /\ \E props \in PropertyLists : FillBegin(props)
    /\ UNCHANGED << parserVars, templateVars, buildVars, pairVars, tableVars >>

\* One turn of the for loop of fill.
FillToken ==
    /\ fillPc = "filling"
    /\ fillIndex < Len(buildTokens)
    /\ LET key == buildTokens[fillIndex + 1].name
       IN  IF key \notin DOMAIN renderedMap
           THEN /\ missingTokens' = Append(missingTokens, key)
                /\ UNCHANGED filled
           ELSE /\ filled' = replace(filled, placeholder(key), renderedMap[key])
                /\ UNCHANGED missingTokens
    /\ fillIndex' = fillIndex + 1
    /\ UNCHANGED << fillPc, properties, renderedMap, fillThrown >>
    /\ UNCHANGED << parserVars, templateVars, buildVars, pairVars, tableVars >>

\* The loop is over: the throw for the missing tokens, or the return.
FillEnd ==
    /\ fillPc = "filling"
    /\ fillIndex = Len(buildTokens)
    /\ IF Len(missingTokens) > 0
       THEN /\ fillThrown' = MissingRenderedError(missingTokens)
            /\ fillPc' = "failed"
       ELSE /\ fillPc' = "filled"
            /\ UNCHANGED fillThrown
    /\ UNCHANGED << properties, renderedMap, filled, missingTokens, fillIndex >>
    /\ UNCHANGED << parserVars, templateVars, buildVars, pairVars, tableVars >>

\* fill has returned or thrown, or fromString has thrown, and the caller
\* drops the template and what the calls left.
FillLeave ==
    /\ buildPc = "failed" \/ fillPc \in {"filled", "failed"}
    /\ buildPc' = "idle"
    /\ sourceString' = <<>>
    /\ tokenMatches' = <<>>
    /\ buildIndex' = 0
    /\ buildTokens' = <<>>
    /\ buildThrown' = NoError
    /\ fillPc' = "idle"
    /\ properties' = <<>>
    /\ renderedMap' = <<>>
    /\ filled' = <<>>
    /\ missingTokens' = <<>>
    /\ fillIndex' = 0
    /\ fillThrown' = NoError
    /\ UNCHANGED << parserVars, templateVars, pairVars, tableVars >>

NextFill ==
    \/ TemplateFromString
    \/ BuildToken
    \/ BuildEnd
    \/ Fill
    \/ FillToken
    \/ FillEnd
    \/ FillLeave

SpecFill == Init /\ [][NextFill]_vars

(***************************************************************************)
(* rendering/pair.ts: Pair.  render() is an async function with one await: *)
(* what it does up to the await (the test of isRendered and the call of    *)
(* renderMarkdownString) runs inside the caller's turn, what it does after *)
(* it runs in a later turn, once the renderer's promise has resolved.      *)
(* Template.compile starts one normalize per token inside one              *)
(* tokens.map(async ...) and awaits them together with Promise.all, so the *)
(* calls made for several placeholders of one key all begin before any of  *)
(* them resumes.                                                           *)
(***************************************************************************)
\* How many render() calls are made on the Pair, and how many extend() calls.
MaxRenders == 3
MaxExtends == 2

\* The values a Pair is constructed with, and the lines extend() is given.
PairValues == { Hello, World }
ExtendValues == { << "x" >>, << "y" >> }

\* renderMarkdownString: the HTML of a markdown string.  The renderer is
\* Obsidian's; the tests put `<p>${value}</p>` in its place.
renderMarkdownString(markdownSource) ==
    << "<", "p", ">" >> \o markdownSource \o << "<", "/", "p", ">" >>

RenderedPairError == Error("Trying to change value to a rendered Pair object.")

\* new Pair(key, sourceValue, context)
PairConstruct ==
    /\ pairPc = "none"
    /\ \E v \in PairValues : sourceValue' = v
    /\ pairPc' = "live"
    /\ isRendered' = FALSE
    /\ renderedValue' = <<>>
    /\ renderCalls' = <<>>
    /\ rendered' = <<>>
    /\ pairThrown' = NoError
    /\ UNCHANGED << parserVars, templateVars, buildVars, tableVars, fillVars >>

\* Pair.extend
PairExtend ==
    /\ pairPc = "live"
    /\ Len(sourceValue) < Len(Hello) + 2 * MaxExtends
    /\ IF isRendered
       THEN /\ pairThrown' = RenderedPairError
            /\ UNCHANGED sourceValue
       ELSE /\ \E value \in ExtendValues : sourceValue' = sourceValue \o << "\n" >> \o value
            /\ pairThrown' = NoError
    /\ UNCHANGED << pairPc, isRendered, renderedValue, renderCalls, rendered >>
    /\ UNCHANGED << parserVars, templateVars, buildVars, tableVars, fillVars >>

\* Pair.render up to its await: the test of isRendered and, when it is not
\* set, the call of renderMarkdownString(this.sourceValue, this.context).
RenderCall ==
    /\ pairPc = "live"
    /\ Len(renderCalls) < MaxRenders
    /\ IF ~isRendered
       THEN /\ rendered' = Append(rendered, sourceValue)
            /\ renderCalls' = Append(renderCalls,
                                 [ pc |-> "awaiting", html |-> renderMarkdownString(sourceValue) ])
       ELSE /\ renderCalls' = Append(renderCalls,
                                 [ pc |-> "resolved", html |-> renderedValue[1] ])
            /\ UNCHANGED rendered
    /\ UNCHANGED << pairPc, sourceValue, isRendered, renderedValue, pairThrown >>
    /\ UNCHANGED << parserVars, templateVars, buildVars, tableVars, fillVars >>

\* Pair.render after its await: the renderer's promise of some call has
\* resolved, the call stores the HTML, sets isRendered and returns
\* this.renderedValue.
RenderResume ==
    /\ pairPc = "live"
    /\ \E i \in 1..Len(renderCalls) :
         /\ renderCalls[i].pc = "awaiting"
         /\ renderedValue' = << renderCalls[i].html >>
         /\ isRendered' = TRUE
         /\ renderCalls' = [ renderCalls EXCEPT ![i].pc = "resolved" ]
    /\ UNCHANGED << pairPc, sourceValue, rendered, pairThrown >>
    /\ UNCHANGED << parserVars, templateVars, buildVars, tableVars, fillVars >>

NextRender ==
    \/ PairConstruct
    \/ PairExtend
    \/ RenderCall
    \/ RenderResume

SpecRender == Init /\ [][NextRender]_vars

(***************************************************************************)
(* old-parser/states.ts: the table-driven parser's transition table, and   *)
(* how its names correspond to the state classes and jump conditions.      *)
(***************************************************************************)
ACCEPTING_STATES == { "PropertyStart", "PropertyText", "CodefenceEnd" }

TRANSITION_MAP ==
    [ s \in { "CodeblockStart", "PropertyStart", "PropertyText", "CodefenceStart",
              "CodefenceText", "CodefenceEnd", "CodeblockEnd", "Error" } |->
        CASE s = "CodeblockStart" -> ("property-start" :> "PropertyStart")
          [] s \in { "PropertyStart", "PropertyText", "CodefenceEnd" } ->
                ("property-start" :> "PropertyStart")
                    @@ ("codefence-start" :> "CodefenceStart")
                    @@ ("any-text" :> "PropertyText")
          [] s \in { "CodefenceStart", "CodefenceText" } ->
                ("codefence-end" :> "CodefenceEnd")
                    @@ ("property-start" :> "CodefenceText")
                    @@ ("codefence-start" :> "CodefenceText")
                    @@ ("any-text" :> "CodefenceText")
          [] OTHER -> << >> ]

\* ParserState member (spec name in the comment) -> state class.
ClassOf ==
    ("CodeblockStart" :> "CodeblockStartState")       \* Start
        @@ ("PropertyStart" :> "PairState")           \* PropertyDeclared
        @@ ("PropertyText" :> "PairContentState")     \* PropertyText
        @@ ("CodefenceStart" :> "NestedStartState")   \* FenceOpen
        @@ ("CodefenceText" :> "NestedContentState")  \* FenceText
        @@ ("CodefenceEnd" :> "NestedEndState")       \* FenceClose
        @@ ("CodeblockEnd" :> "CodeblockEndState")    \* End
        @@ ("Error" :> "ParsingErrorState")           \* Error

MemberOf(S) == CHOOSE s \in DOMAIN ClassOf : ClassOf[s] = S

\* JumpCondition member -> RuleName.
RuleNameOf ==
    ("Property" :> "property-start") @@ ("NestedStart" :> "codefence-start")
        @@ ("NestedEnd" :> "codefence-end") @@ ("Text" :> "any-text")

LineStates == { "PairState", "PairContentState", "NestedStartState",
                "NestedContentState", "NestedEndState" }
FenceStates == { "NestedStartState", "NestedContentState" }

\* A handler of a line state runs and its jump consumes the next line.
ConsumesLine ==
    /\ pc = "running" /\ pc' = "running"
    /\ state \in LineStates
    /\ index' = index + 1

(***************************************************************************)
(* codeblock-parser/parser.ts: the table-driven CodeblockParser.  Its line *)
(* matchers hold the regular expressions of MATCHERS, in the same order,   *)
(* in rule objects of its own: every parser builds its Map anew.           *)
(***************************************************************************)
TableEmptyError == Error("Codeblock is empty or has only whitespaces.")
TableStartError == Error("Codeblock must start with a property")
TableUnexpectedEndError(S) ==
    [ Error("Unexpected end of input: expected to complete codeblock but got state <state>")
        EXCEPT !.state = S ]
TableInvalidTransitionError(S, rule) ==
    [ Error("Invalid transition from state <state> on rule <cond>")
        EXCEPT !.state = S, !.cond = rule ]
\* keys holds the text of the line.
CouldNotMatchError(n, value) ==
    [ Error("Line <line>: could not match line \"<keys>\".") EXCEPT !.line = n, !.keys = value ]
NoCurrentPropertyError(n, value) ==
    [ Error("Line <line>: no current property to update for line \"<keys>\".")
        EXCEPT !.line = n, !.keys = value ]
LineOutOfBoundsError == Error("CodeblockLine index out of bounds.")
UnknownParsingError == Error("Unknown parsing error.")

\* Property (codeblock-parser/types.ts) and its appendText.
Property(name, value) == [ name |-> name, value |-> value ]
appendText(p, value) == [ p EXCEPT !.value = @ \o << "\n" >> \o value ]

\* _getLine for an index within the lines.
getLine(ls, idx) == [ value |-> Trim(ls[idx + 1]), index |-> idx ]

\* _matchLine: <<the LineMatch>> of the first rule that matches, <<>> when
\* the loop falls through to the throw.
matchLine(rx, line) ==
    LET hits == { r \in 1..Len(MATCHERS) : RuleExec(MATCHERS[r], rx, line.value) # <<>> }
    IN  IF hits = {} THEN <<>>
        ELSE << [ rule  |-> RuleNameOf[MATCHERS[Min(hits)]],
                  line  |-> line,
                  match |-> RuleExec(MATCHERS[Min(hits)], rx, line.value) ] >>

\* _storeProperty: the property array afterwards.
storeProperty(ps, p) == IF p # <<>> THEN Append(ps, p[1]) ELSE ps

\* The fields _advanceState may change, as they stand.
TableHere == [ state |-> currentState, index |-> currentIndex,
               lineMatch |-> currentLineMatch, errorMessage |-> errorMessage,
               pc |-> tablePc, thrown |-> tableThrown ]

\* _fail
fail(h, message) == [ h EXCEPT !.errorMessage = message, !.state = "Error" ]

\* _advanceState, the "codefence-end" regex being rx.
advanceState(rx, incrementIndex) ==
    IF currentIndex = Len(tableLines) - 1 /\ currentState # "CodeblockStart"
    THEN IF currentState \in ACCEPTING_STATES
         THEN [ TableHere EXCEPT !.state = "CodeblockEnd" ]
         ELSE fail(TableHere, TableUnexpectedEndError(currentState))
    ELSE LET i == IF incrementIndex THEN currentIndex + 1 ELSE currentIndex
         IN  IF i >= Len(tableLines)
             THEN [ TableHere EXCEPT !.index = i, !.pc = "thrown",
                                     !.thrown = LineOutOfBoundsError ]
             ELSE LET m == matchLine(rx, getLine(tableLines, i))
                  IN  IF m = <<>>
                      THEN [ TableHere EXCEPT
                               !.index = i, !.pc = "thrown",
                               !.thrown = CouldNotMatchError(i + 1, Trim(tableLines[i + 1])) ]
                      ELSE IF m[1].rule \in DOMAIN TRANSITION_MAP[currentState]
                      THEN [ TableHere EXCEPT
                               !.index = i, !.lineMatch = m,
                               !.state = TRANSITION_MAP[currentState][m[1].rule] ]
                      ELSE fail([ TableHere EXCEPT !.index = i, !.lineMatch = m ],
                                IF currentState = "CodeblockStart"
                                      /\ m[1].rule # "property-start"
                                THEN TableStartError
                                ELSE TableInvalidTransitionError(currentState, m[1].rule))

\* Assign the fields _advanceState returns.
Advanced(a) ==
    /\ currentState' = a.state
    /\ currentIndex' = a.index
    /\ currentLineMatch' = a.lineMatch
    /\ errorMessage' = a.errorMessage
    /\ tablePc' = a.pc
    /\ tableThrown' = a.thrown

\* _updateProperty on a null buffer: the throw leaves the call.
ThrowNoCurrentProperty ==
    /\ tablePc' = "thrown"
    /\ tableThrown' = NoCurrentPropertyError(currentIndex + 1,
                                             Trim(tableLines[currentIndex + 1]))
    /\ UNCHANGED << currentState, currentIndex, currentLineMatch, errorMessage,
                    currentProperty >>

\* _updateProperty, then _advanceState with the "codefence-end" regex rx.
UpdateAndAdvance(rx) ==
    IF currentProperty = <<>>
    THEN ThrowNoCurrentProperty
    ELSE /\ currentProperty' =
              << appendText(currentProperty[1], currentLineMatch[1].line.value) >>
         /\ Advanced(advanceState(rx, TRUE))

\* new CodeblockParser(src) up to the first handler of _parse.
TableConstruct(src) ==
    /\ tableSource' = src
    /\ currentState' = "CodeblockStart"
    /\ currentIndex' = 0
    /\ currentLineMatch' = <<>>
    /\ currentProperty' = <<>>
    /\ parsedProperties' = <<>>
    /\ errorMessage' = NoError
    /\ codefenceEnd' = <<>>
    /\ visited' = <<>>
    /\ IF Trim(src) = <<>>
       THEN /\ tableThrown' = TableEmptyError
            /\ tablePc' = "thrown"
            /\ tableLines' = <<>>
       ELSE /\ tableThrown' = NoError
            /\ tablePc' = "running"
            /\ tableLines' = Split(Trim(src))

\* CodeblockParser.parseProperties on any source, once no call is under way.
ParseProperties ==
    /\ tablePc = "idle"
    /\ pc = "idle"
    /\ \E src \in Inputs : TableConstruct(src)
    /\ UNCHANGED << parserVars, templateVars, buildVars, pairVars, fillVars >>

\* _handleCodeblockStart
TableHandleCodeblockStart ==
    /\ tablePc = "running"
    /\ currentState = "CodeblockStart"
    /\ visited' = Append(visited, currentState)
    /\ Advanced(advanceState(codefenceEnd, FALSE))
    /\ UNCHANGED << tableSource, tableLines, currentProperty, parsedProperties,
                    codefenceEnd >>
    /\ UNCHANGED << parserVars, templateVars, buildVars, pairVars, fillVars >>

\* _handlePropertyStart
TableHandlePropertyStart ==
    /\ tablePc = "running"
    /\ currentState = "PropertyStart"
    /\ visited' = Append(visited, currentState)
    /\ parsedProperties' = storeProperty(parsedProperties, currentProperty)
    /\ currentProperty' =
         << Property(currentLineMatch[1].match[2], currentLineMatch[1].match[3]) >>
    /\ Advanced(advanceState(codefenceEnd, TRUE))
    /\ UNCHANGED << tableSource, tableLines, codefenceEnd >>
    /\ UNCHANGED << parserVars, templateVars, buildVars, pairVars, fillVars >>

\* _handlePropertyText
TableHandlePropertyText ==
    /\ tablePc = "running"
    /\ currentState = "PropertyText"
    /\ visited' = Append(visited, currentState)
    /\ UpdateAndAdvance(codefenceEnd)
    /\ UNCHANGED << tableSource, tableLines, parsedProperties, codefenceEnd >>
    /\ UNCHANGED << parserVars, templateVars, buildVars, pairVars, fillVars >>

\* _handleCodefenceStart
TableHandleCodefenceStart ==
    /\ tablePc = "running"
    /\ currentState = "CodefenceStart"
    /\ visited' = Append(visited, currentState)
    /\ codefenceEnd' = currentLineMatch[1].match[2]
    /\ UpdateAndAdvance(currentLineMatch[1].match[2])
    /\ UNCHANGED << tableSource, tableLines, parsedProperties >>
    /\ UNCHANGED << parserVars, templateVars, buildVars, pairVars, fillVars >>

\* _handleCodefenceText
TableHandleCodefenceText ==
    /\ tablePc = "running"
    /\ currentState = "CodefenceText"
    /\ visited' = Append(visited, currentState)
    /\ UpdateAndAdvance(codefenceEnd)
    /\ UNCHANGED << tableSource, tableLines, parsedProperties, codefenceEnd >>
    /\ UNCHANGED << parserVars, templateVars, buildVars, pairVars, fillVars >>

\* _handleCodefenceEnd
TableHandleCodefenceEnd ==
    /\ tablePc = "running"
    /\ currentState = "CodefenceEnd"
    /\ visited' = Append(visited, currentState)
    /\ codefenceEnd' = <<>>
    /\ UpdateAndAdvance(<<>>)
    /\ UNCHANGED << tableSource, tableLines, parsedProperties >>
    /\ UNCHANGED << parserVars, templateVars, buildVars, pairVars, fillVars >>

\* _handleCodeblockEnd, then the return of the constructor and of
\* parseProperties.
TableHandleCodeblockEnd ==
    /\ tablePc = "running"
    /\ currentState = "CodeblockEnd"
    /\ visited' = Append(visited, currentState)
    /\ parsedProperties' = storeProperty(parsedProperties, currentProperty)
    /\ currentProperty' = <<>>
    /\ tablePc' = "returned"
    /\ UNCHANGED << tableSource, tableLines, currentState, currentIndex,
                    currentLineMatch, errorMessage, codefenceEnd, tableThrown >>
    /\ UNCHANGED << parserVars, templateVars, buildVars, pairVars, fillVars >>

\* _handleError
TableHandleError ==
    /\ tablePc = "running"
    /\ currentState = "Error"
    /\ visited' = Append(visited, currentState)
    /\ tableThrown' = IF errorMessage # NoError THEN errorMessage ELSE UnknownParsingError
    /\ tablePc' = "thrown"
    /\ UNCHANGED << tableSource, tableLines, currentState, currentIndex,
                    currentLineMatch, currentProperty, parsedProperties, errorMessage,
                    codefenceEnd >>
    /\ UNCHANGED << parserVars, templateVars, buildVars, pairVars, fillVars >>

(***************************************************************************)
(* A caller that gives the source of a parseProperties call that is over   *)
(* to fromString as well, and drops both parsers when both are over.       *)
(***************************************************************************)
FromStringSame ==
    /\ tablePc \in { "returned", "thrown" }
    /\ pc = "idle"
    /\ Construct(tableSource)
    /\ UNCHANGED << kept, templateVars, buildVars, pairVars, tableVars, fillVars >>

LeaveBoth ==
    /\ tablePc \in { "returned", "thrown" }
    /\ pc \in { "returned", "thrown" }
    /\ pc' = "idle"
    /\ source' = <<>>
    /\ lines' = <<>>
    /\ index' = 0
    /\ state' = ""
    /\ pair' = <<>>
    /\ pairs' = <<>>
    /\ match' = <<>>
    /\ errorMsg' = NoError
    /\ thrown' = NoError
    /\ kept' = <<>>
    /\ UNCHANGED codefenceRegex
    /\ tablePc' = "idle"
    /\ tableSource' = <<>>
    /\ tableLines' = <<>>
    /\ currentState' = "CodeblockStart"
    /\ currentIndex' = 0
    /\ currentLineMatch' = <<>>
    /\ currentProperty' = <<>>
    /\ parsedProperties' = <<>>
    /\ errorMessage' = NoError
    /\ codefenceEnd' = <<>>
    /\ tableThrown' = NoError
    /\ visited' = <<>>
    /\ UNCHANGED << templateVars, buildVars, pairVars, fillVars >>

NextTable ==
    \/ ParseProperties
    \/ TableHandleCodeblockStart
    \/ TableHandlePropertyStart
    \/ TableHandlePropertyText
    \/ TableHandleCodefenceStart
    \/ TableHandleCodefenceText
    \/ TableHandleCodefenceEnd
    \/ TableHandleCodeblockEnd
    \/ TableHandleError
    \/ FromStringSame
    \/ HandleCodeblockStart
    \/ HandlePair
    \/ HandlePairContent
    \/ HandleNestedStart
    \/ HandleNestedContent
    \/ HandleNestedEnd
    \/ HandleCodeblockEnd
    \/ HandleParsingError
    \/ LeaveBoth

SpecTable == Init /\ [][NextTable]_vars

(***************************************************************************)
(* C1.  The state entered for each consumed line is the transition table's *)
(* entry for (current state, category of the consumed line): from          *)
(* PropertyDeclared, PropertyText or FenceClose a property-start line      *)
(* leads to PropertyDeclared, a fence-open line to FenceOpen, a text line  *)
(* to PropertyText; from FenceOpen or FenceText a fence-close line leads   *)
(* to FenceClose and every other category to FenceText.                    *)
(***************************************************************************)
C1_TransitionTable ==
    [][ ConsumesLine =>
          LET row == TRANSITION_MAP[MemberOf(state)]
              cat == RuleNameOf[match'[1].rule]
          IN  cat \in DOMAIN row => state' = ClassOf[row[cat]] ]_vars

\* A property-looking line consumed inside a fence has led to FenceText.
C1_Witness ==
    /\ pc = "running"
    /\ state = "NestedContentState"
    /\ index >= 2
    /\ match[1].rule = "Property"

(***************************************************************************)
(* C3.  A fence opened by a run of n >= 3 backticks (language tag or not)  *)
(* is closed by the next line exactly when that line is n backticks and    *)
(* nothing else; the terminator stays the opening run while the fence is   *)
(* open, and a line equal to it closes the fence rather than nesting.      *)
(***************************************************************************)
C3_ExactTerminator ==
    [][ (pc = "running" /\ state \in FenceStates /\ ~isLastLine(lines, index)
            /\ pair # <<>>) =>
          LET n    == PrefixLen(lines[index + 1], {Tick})
              next == lines[index + 2]
          IN  /\ state = "NestedStartState" => (n >= 3 /\ codefenceRegex' = Ticks(n))
              /\ state = "NestedContentState" => codefenceRegex' = codefenceRegex
              /\ (state' = "NestedEndState") <=> (next = codefenceRegex')
              /\ pc' = "running" => state' # "NestedStartState" ]_vars

\* A fence opened by three backticks is still open after a four-backtick line.
C3_Witness ==
    /\ pc = "running"
    /\ state = "NestedContentState"
    /\ codefenceRegex = Ticks(3)
    /\ lines[index + 1] = Ticks(4)
    /\ \E i \in 1..index : lines[i] = Ticks(3) \o << "j", "s" >>

(***************************************************************************)
(* C4.  Once the last line has been consumed the parser moves to End if    *)
(* and only if it is in PropertyDeclared, PropertyText or FenceClose; in   *)
(* FenceOpen or FenceText it moves to Error with the 'unexpected end of    *)
(* input' message, and a call that throws it returns no list.              *)
(***************************************************************************)
C4_EndOfInput ==
    /\ [][ (pc = "running" /\ state \in LineStates /\ index = Len(lines) - 1
               /\ pair # <<>>) =>
             /\ (state' = "CodeblockEndState") <=> (MemberOf(state) \in ACCEPTING_STATES)
             /\ MemberOf(state) \in { "CodefenceStart", "CodefenceText" } =>
                  /\ state' = "ParsingErrorState"
                  /\ errorMsg' = UnexpectedEndError(state) ]_vars
    /\ [][ (pc = "running" /\ state = "ParsingErrorState") =>
             (pc' = "thrown" /\ thrown' = errorMsg) ]_vars

\* A call has thrown 'unexpected end of input' out of an unclosed fence.
C4_Witness ==
    /\ pc = "thrown"
    /\ thrown = UnexpectedEndError("NestedContentState")
    /\ index = Len(lines) - 1

(***************************************************************************)
(* C2.  While a fence is open, a consumed line that is not the terminator  *)
(* leads to FenceText whatever it looks like, starts no property and       *)
(* leaves the terminator alone; the FenceText handler then appends that    *)
(* line to the buffered property's value.                                  *)
(***************************************************************************)
C2_FenceContentOpaque ==
    /\ [][ (ConsumesLine /\ state \in FenceStates
               /\ lines[index' + 1] # codefenceRegex') =>
             /\ state' = "NestedContentState"
             /\ pairs' = pairs
             /\ pair'[1].key = pair[1].key
             /\ state = "NestedContentState" => codefenceRegex' = codefenceRegex ]_vars
    /\ [][ (pc = "running" /\ state = "NestedContentState") =>
             /\ pair' = << [ key   |-> pair[1].key,
                             value |-> pair[1].value \o << "\n" >> \o lines[index + 1] ] >>
             /\ pairs' = pairs
             /\ codefenceRegex' = codefenceRegex ]_vars

\* "b:", three backticks, "a: x", three backticks parsed to the one property b.
C2_Witness ==
    /\ pc = "returned"
    /\ lines = << << "b", ":" >>, Ticks(3), << "a", ":", " ", "x" >>, Ticks(3) >>
    /\ pairs = << [ key   |-> << "b" >>,
                    value |-> << "\n" >> \o Ticks(3) \o << "\n", "a", ":", " ", "x", "\n" >>
                                 \o Ticks(3) ] >>

(***************************************************************************)
(* C5.  The fence-terminator slot never carries over between calls: every  *)
(* fromString call starts with the fence-close rule disabled.              *)
(***************************************************************************)
C5_NoLeakAcrossCalls == pc = "idle" => codefenceRegex = <<>>

(***************************************************************************)
(* C6.  On success the returned list holds one property per property-start *)
(* line lying outside any fence, in source order, each value being the     *)
(* remainder of its declaration line followed by every later line up to    *)
(* the next declaration, joined with \n.                                   *)
(***************************************************************************)
\* Indices of the property-start lines of ls outside any fence, from line i on,
\* f being the terminator of the fence line i lies in (<<>> outside fences).
RECURSIVE Declarations(_, _, _)
Declarations(ls, i, f) ==
    IF i > Len(ls) THEN <<>>
    ELSE IF f # <<>>
         THEN Declarations(ls, i + 1, IF ls[i] = f THEN <<>> ELSE f)
    ELSE IF PropertyExec(ls[i]) # <<>>
         THEN << i >> \o Declarations(ls, i + 1, <<>>)
    ELSE IF NestedStartExec(ls[i]) # <<>>
         THEN Declarations(ls, i + 1, Ticks(PrefixLen(ls[i], {Tick})))
    ELSE Declarations(ls, i + 1, <<>>)

C6_PropertiesFoldLines ==
    pc = "returned" =>
        LET ds == Declarations(lines, 1, <<>>)
            until(k) == IF k < Len(ds) THEN ds[k + 1] - 1 ELSE Len(lines)
        IN  /\ Len(pairs) = Len(ds)
            /\ \A k \in 1..Len(ds) :
                 /\ pairs[k].key = PropertyExec(lines[ds[k]])[2]
                 /\ pairs[k].value =
                      Join(<< PropertyExec(lines[ds[k]])[3] >>
                               \o SubSeq(lines, ds[k] + 1, until(k)), << "\n" >>)

\* Two properties returned, the first one folding a whole fence.
C6_Witness ==
    /\ pc = "returned"
    /\ Len(pairs) = 2
    /\ Len(lines) = 4
    /\ lines[2] = Ticks(3) /\ lines[3] = Ticks(3)

(***************************************************************************)
(* C7.  A finished parse fails exactly when some key is declared by more   *)
(* than one property, and the error then names every duplicated key        *)
(* exactly once, comma-joined.                                             *)
(***************************************************************************)
DuplicatedKeys(ps) ==
    { ps[i].key : i \in { i \in 1..Len(ps) : \E j \in 1..Len(ps) : j # i /\ ps[j].key = ps[i].key } }

C7_AllDuplicatesNamed ==
    (pc \in {"returned", "thrown"} /\ state = "CodeblockEndState") =>
        LET D == DuplicatedKeys(pairs)
        IN  /\ (pc = "thrown") <=> (D # {})
            /\ D # {} =>
                 /\ thrown.text = "Duplicate pairs found: <keys>"
                 /\ \E order \in [1..Cardinality(D) -> D] :
                      /\ \A i, j \in 1..Cardinality(D) : order[i] = order[j] => i = j
                      /\ thrown.keys = Join(order, << ",", " " >>)

\* Two keys are duplicated, or one key is declared three times.
C7_Witness ==
    /\ pc = "thrown"
    /\ state = "CodeblockEndState"
    /\ \/ Cardinality(DuplicatedKeys(pairs)) = 2
       \/ \E i, j, k \in 1..Len(pairs) :
            i < j /\ j < k /\ pairs[i].key = pairs[j].key /\ pairs[j].key = pairs[k].key

(***************************************************************************)
(* C8.  The duplicate-key error lists the duplicated keys in first-seen    *)
(* order: by the position of each key's first declaration.                 *)
(***************************************************************************)
\* The duplicated keys of ps from position i on, by first declaration.
RECURSIVE FirstSeenOrder(_, _)
FirstSeenOrder(ps, i) ==
    IF i > Len(ps) THEN <<>>
    ELSE IF /\ \A j \in 1..(i - 1) : ps[j].key # ps[i].key
            /\ \E j \in (i + 1)..Len(ps) : ps[j].key = ps[i].key
         THEN << ps[i].key >> \o FirstSeenOrder(ps, i + 1)
         ELSE FirstSeenOrder(ps, i + 1)

C8_FirstSeenOrder ==
    (pc = "thrown" /\ state = "CodeblockEndState") =>
        thrown.keys = Join(FirstSeenOrder(pairs, 1), << ",", " " >>)

(***************************************************************************)
(* C9.  If the first line is a property-start line the Start state moves   *)
(* to PropertyDeclared on that same line; if it is a fence-open or a text  *)
(* line instead the parse fails with the 'must start with a pair' error    *)
(* and no property is ever created.                                        *)
(***************************************************************************)
C9_MustStartWithProperty ==
    /\ [][ (pc = "running" /\ state = "CodeblockStartState") =>
             IF PropertyExec(lines[1]) # <<>>
             THEN /\ pc' = "running" /\ state' = "PairState" /\ index' = 0
             ELSE /\ NestedStartExec(lines[1]) # <<>> \/ TextExec(lines[1]) # <<>>
                  /\ pc' = "running" /\ state' = "ParsingErrorState"
                  /\ errorMsg' = StartError
                  /\ pair' = <<>> /\ pairs' = <<>> ]_vars
    /\ [][ (pc = "running" /\ state = "ParsingErrorState" /\ errorMsg = StartError) =>
             /\ pc' = "thrown" /\ thrown' = StartError
             /\ pair' = <<>> /\ pairs' = <<>> ]_vars

\* A call whose first line opens a fence has thrown the start error.
C9_Witness ==
    /\ pc = "thrown"
    /\ thrown = StartError
    /\ NestedStartExec(lines[1]) # <<>>
    /\ pairs = <<>> /\ pair = <<>>

(***************************************************************************)
(* C10.  A source that is empty or whitespace-only fails at once with the  *)
(* 'empty or has only whitespaces' error: no line is matched, no state is  *)
(* entered and the fence-terminator slot is not touched.                   *)
(***************************************************************************)
C10_EmptyInputFailsFirst ==
    [][ (pc = "idle" /\ pc' # "idle"
            /\ \A i \in 1..Len(source') : source'[i] \in Whitespace) =>
          /\ pc' = "thrown"
          /\ thrown' = EmptyError
          /\ match' = <<>>
          /\ state' = ""
          /\ lines' = <<>>
          /\ codefenceRegex' = codefenceRegex ]_vars

\* A source of line breaks alone was rejected while a terminator was set.
C10_Witness ==
    /\ pc = "thrown"
    /\ thrown = EmptyError
    /\ Len(source) >= 1
    /\ state = ""
    /\ codefenceRegex # <<>>

(***************************************************************************)
(* C11.  Fence delimiter lines are data: after a successful parse the      *)
(* value of the owning property holds the opening fence line (language tag *)
(* included) and the closing fence line exactly as in the source, in       *)
(* order, each as a \n-separated line of its own.                          *)
(***************************************************************************)
\* The fences of ls from line i on as << opening index, closing index >>, f
\* being the terminator of the fence line i lies in and o that fence's opening.
RECURSIVE Fences(_, _, _, _)
Fences(ls, i, f, o) ==
    IF i > Len(ls) THEN <<>>
    ELSE IF f # <<>>
         THEN IF ls[i] = f
              THEN << << o, i >> >> \o Fences(ls, i + 1, <<>>, 0)
              ELSE Fences(ls, i + 1, f, o)
    ELSE IF PropertyExec(ls[i]) = <<>> /\ NestedStartExec(ls[i]) # <<>>
         THEN Fences(ls, i + 1, Ticks(PrefixLen(ls[i], {Tick})), i)
    ELSE Fences(ls, i + 1, <<>>, 0)

C11_FenceLinesPreserved ==
    pc = "returned" =>
        LET ds == Declarations(lines, 1, <<>>)
            fs == Fences(lines, 1, <<>>, 0)
        IN  \A n \in 1..Len(fs) :
              LET k  == Max({ j \in 1..Len(ds) : ds[j] < fs[n][1] })
                  vl == Split(pairs[k].value)
              IN  /\ vl[fs[n][1] - ds[k] + 1] = lines[fs[n][1]]
                  /\ vl[fs[n][2] - ds[k] + 1] = lines[fs[n][2]]

\* A fence opened with a language tag and closed has been returned.
C11_Witness ==
    /\ pc = "returned"
    /\ \E i \in 1..Len(lines) :
         /\ lines[i] = Ticks(3) \o << "j", "s" >>
         /\ \E n \in 1..Len(Fences(lines, 1, <<>>, 0)) : Fences(lines, 1, <<>>, 0)[n][1] = i

(***************************************************************************)
(* C12.  Parsing is idempotent on its own output: the list a successful    *)
(* parse returns, written as one "key: value" per property (the value's    *)
(* further lines following), joined with \n and parsed again, is returned  *)
(* again: same keys, same values, same order.                              *)
(***************************************************************************)
C12_ReparseIdempotent ==
    (kept # <<>> /\ pc \in {"returned", "thrown"}) =>
        /\ pc = "returned"
        /\ pairs = kept[1]

\* The parse of a written-out list of two properties, one of them holding a
\* fence, has returned.
C12_Witness ==
    /\ kept # <<>>
    /\ pc = "returned"
    /\ Len(pairs) >= 2
    /\ \E i \in 1..Len(pairs) : \E j \in 1..Len(pairs[i].value) : pairs[i].value[j] = Tick

(***************************************************************************)
(* C13.  A property-start line is split at its first colon: the key is the *)
(* run of lowercase letters and dashes before it, whitespace on both sides *)
(* of the colon is dropped, and the initial value is the whole remainder   *)
(* of the line, which may be empty and may hold further colons.            *)
(***************************************************************************)
FirstColon(line) == Min({ i \in 1..Len(line) : line[i] = ":" })

\* s without its trailing whitespace.
DropTrailingBlanks(s) ==
    LET keep == { i \in 1..Len(s) : s[i] \notin Whitespace }
    IN  IF keep = {} THEN <<>> ELSE SubSeq(s, 1, Max(keep))

\* s without its leading whitespace.
DropLeadingBlanks(s) ==
    LET keep == { i \in 1..Len(s) : s[i] \notin Whitespace }
    IN  IF keep = {} THEN <<>> ELSE SubSeq(s, Min(keep), Len(s))

C13_SplitAtFirstColon ==
    [][ (pc = "running" /\ state = "PairState") =>
          LET line == match[1].lineContent
              c    == FirstColon(line)
              key  == DropTrailingBlanks(SubSeq(line, 1, c - 1))
          IN  /\ match[1].rule = "Property"
              /\ key # <<>>
              /\ \A i \in 1..Len(key) : key[i] \in KeyChars
              /\ pair' = << [ key   |-> key,
                              value |-> DropLeadingBlanks(SubSeq(line, c + 1, Len(line))) ] >>
      ]_vars

\* A property has been started from a line with blanks on both sides of its
\* first colon and a further colon in the value, and one from a line with an
\* empty remainder.
C13_Witness ==
    /\ pc = "returned"
    /\ \E i \in 1..Len(pairs) : pairs[i] = [ key |-> << "a", "-", "b" >>, value |-> << "c", ":", "d" >> ]
    /\ \E i \in 1..Len(pairs) : pairs[i] = [ key |-> << "b" >>, value |-> <<>> ]

(***************************************************************************)
(* C14.  Every line matches at least one rule, the generic-text rule        *)
(* matching any content: matchCurrentLine never raises "could not be       *)
(* matched".                                                               *)
(***************************************************************************)
C14_EveryLineMatches == thrown.text # "Line <line> could not be matched."

(***************************************************************************)
(* C15.  TemplateParser.parse returns the tokens in left-to-right source   *)
(* order, literal text and placeholders interleaved: no two Text tokens    *)
(* are adjacent and no Text token has empty content.                       *)
(***************************************************************************)
\* Every step of parse appends to tokens; a Text token it appends is a slice
\* of the source that lies between the scan position before the step and the
\* one after it (the end of the source for the last step).
C15_TokensInOrder ==
    [][ tplPc = "parsing" =>
          LET hi == IF tplPc' = "parsed" THEN Len(tplSource) ELSE tplIndex'
          IN  /\ Len(tokens') >= Len(tokens)
              /\ SubSeq(tokens', 1, Len(tokens)) = tokens
              /\ tplIndex' >= tplIndex
              /\ \A i \in 1..Len(tokens') :
                   tokens'[i].type = "text" =>
                     /\ tokens'[i].content # <<>>
                     /\ i > 1 => tokens'[i - 1].type = "handlebar"
                     /\ i > Len(tokens) =>
                          \E at \in tplIndex..hi :
                            /\ at + Len(tokens'[i].content) <= hi
                            /\ StartsWith(tplSource, at + 1, tokens'[i].content)
      ]_vars

\* A parse has returned text followed by two placeholders next to each other.
C15_Witness ==
    /\ tplPc = "parsed"
    /\ \E i \in 1..Len(tokens) :
         /\ i + 2 <= Len(tokens)
         /\ tokens[i].type = "text"
         /\ tokens[i + 1].type = "handlebar"
         /\ tokens[i + 2].type = "handlebar"

(***************************************************************************)
(* C16.  TemplateParser.parse never fails, and a substring that looks like *)
(* a placeholder but matches none of the three syntaxes (a name with inner *)
(* spaces or digits, an empty default directly before the closing braces)  *)
(* stays unchanged inside a Text token.                                    *)
(***************************************************************************)
Lookalikes ==
    { << "{", "{", " ", "a", " ", "b", " ", "}", "}" >>,
      << "{", "{", " ", "t", "1", " ", "}", "}" >>,
      << "{", "{", "t", "i", "t", "l", "e", "|", "}", "}" >> }

\* How many times lit occurs in s.
Occurrences(lit, s) == Cardinality({ i \in 1..Len(s) : StartsWith(s, i, lit) })

\* How many times lit occurs in the Text tokens of ts.
RECURSIVE OccurrencesInText(_, _)
OccurrencesInText(lit, ts) ==
    IF ts = <<>> THEN 0
    ELSE (IF ts[1].type = "text" THEN Occurrences(lit, ts[1].content) ELSE 0)
         + OccurrencesInText(lit, Tail(ts))

C16_LookalikesStayText ==
    /\ tplThrown.text # "Syntax regex did not match its own substring."
    /\ tplPc = "parsed" =>
         \A lit \in Lookalikes :
           OccurrencesInText(lit, tokens) = Occurrences(lit, tplSource)

\* A parse has returned a placeholder token from a source that holds two of
\* the lookalikes.
C16_Witness ==
    /\ tplPc = "parsed"
    /\ \E l1, l2 \in Lookalikes :
         /\ l1 # l2
         /\ Occurrences(l1, tplSource) = 1
         /\ Occurrences(l2, tplSource) = 1
    /\ \E i \in 1..Len(tokens) : tokens[i].type = "handlebar"

(***************************************************************************)
(* C17.  Tokenizing a string without placeholder yields exactly one Text   *)
(* token whose content is the whole (trimmed) string, and tokenizing the   *)
(* empty string yields no token.                                           *)
(***************************************************************************)
C17_OneTrimmedText ==
    (tplPc = "parsed" /\ \A i \in 1..Len(tokens) : tokens[i].type = "text") =>
        tokens = IF tplSource = <<>> THEN <<>> ELSE << TextToken(Trim(tplSource)) >>

(***************************************************************************)
(* C18.  Whitespace inside the braces is insignificant: placeholders that  *)
(* differ only in whitespace next to the braces, the name, the ? or the |  *)
(* tokenize to the same variant, name and trimmed default.                 *)
(***************************************************************************)
\* s without its whitespace.
RECURSIVE Squeeze(_)
Squeeze(s) ==
    IF s = <<>> THEN <<>>
    ELSE (IF s[1] \in Whitespace THEN <<>> ELSE << s[1] >>) \o Squeeze(Tail(s))

\* The token a placeholder text stands for, read off the text with its
\* insignificant whitespace taken out: the name is what stands between the
\* opening braces and the first of ? | }, the default what stands between
\* the | and the closing braces, trimmed.
TokenOfPlaceholder(text) ==
    LET bars == { i \in 1..Len(text) : text[i] = "|" }
    IN  IF bars = {}
        THEN LET strict == Squeeze(text)
             IN  IF strict[Len(strict) - 2] = "?"
                 THEN OptionalToken(SubSeq(strict, 3, Len(strict) - 3))
                 ELSE RequiredToken(SubSeq(strict, 3, Len(strict) - 2))
        ELSE FallbackToken(Squeeze(SubSeq(text, 3, Min(bars) - 1)),
                           Trim(SubSeq(text, Min(bars) + 1, Len(text) - 2)))

C18_BlanksInsignificant ==
    [][ (tplPc = "parsing" /\ tplPc' = "parsing") =>
          tokens'[Len(tokens')] = TokenOfPlaceholder(tplMatch'[1].text) ]_vars

\* A parse has returned equal tokens for {{title}} and {{ title }}, and for
\* {{content|nothing}} and {{ content | nothing }}.
C18_Witness ==
    /\ tplPc = "parsed"
    /\ tplSource = << "{", "{", "t", "i", "t", "l", "e", "}", "}" >>
                   \o << "<", "h", "1", ">", "{", "{", " ", "t", "i", "t", "l", "e", " ", "}", "}", "<", "/", "h", "1", ">" >>
    /\ tokens[1] = tokens[3]
    /\ tokens[1] = RequiredToken(Title)

(***************************************************************************)
(* C19.  For a placeholder whose name is the key of a supplied property,   *)
(* compile emits the property's value at the placeholder's position,       *)
(* between the neighbouring text segments in token order: title = Hello,   *)
(* content = World and <h1>{{ title }}</h1><p>{{ content | nothing }}</p>  *)
(* compile to <h1>Hello</h1><p>World</p>.                                  *)
(***************************************************************************)
\* What the tokens ts emit one after the other for the properties cb, a
\* resolved placeholder emitting its property's value as it is (wrapped
\* FALSE) or inside the cf-markdown element (wrapped TRUE).
RECURSIVE Emitted(_, _, _)
Emitted(ts, cb, wrapped) ==
    IF ts = <<>> THEN <<>>
    ELSE LET at == { i \in 1..Len(cb) : cb[i].key = ts[1].key }
         IN  (IF ts[1].type = "text" THEN ts[1].content
              ELSE IF at # {}
                   THEN (IF wrapped
                         THEN << "<", "d", "i", "v", " ", "c", "l", "a", "s", "s", "=", "\"", "c", "f", "-", "m", "a", "r", "k", "d", "o", "w", "n", "\"", ">" >>
                              \o escapeHTML(cb[Max(at)].value) \o << "<", "/", "d", "i", "v", ">" >>
                         ELSE cb[Max(at)].value)
              ELSE ts[1].fallback[1])
             \o Emitted(Tail(ts), cb, wrapped)

ExampleTemplate ==
    << "<", "h", "1", ">", "{", "{", " ", "t", "i", "t", "l", "e", " ", "}", "}", "<", "/", "h", "1", ">", "<", "p", ">", "{", "{", " ", "c", "o", "n", "t", "e", "n", "t", " ", "|", " ", "n", "o", "t", "h", "i", "n", "g", " ", "}", "}", "<", "/", "p", ">" >>

ExampleCodeblock == << CodeblockProperty(Title, Hello), CodeblockProperty(Content, World) >>

\* The claim as it stands.
C19_EmitsValue ==
    tplPc = "compiled" =>
        /\ compiledTemplate = << Emitted(tokens, codeblock, FALSE) >>
        /\ (tplSource = ExampleTemplate /\ codeblock = ExampleCodeblock) =>
              compiledTemplate = << << "<", "h", "1", ">", "H", "e", "l", "l", "o", "<", "/", "h", "1", ">", "<", "p", ">", "W", "o", "r", "l", "d", "<", "/", "p", ">" >> >>

\* The claim amended: the value is emitted HTML-escaped inside
\* <div class="cf-markdown"> and </div>.
C19_EmitsWrappedValue ==
    tplPc = "compiled" =>
        /\ compiledTemplate = << Emitted(tokens, codeblock, TRUE) >>
        /\ (tplSource = ExampleTemplate /\ codeblock = ExampleCodeblock) =>
              compiledTemplate =
                << << "<", "h", "1", ">", "<", "d", "i", "v", " ", "c", "l", "a", "s", "s", "=", "\"", "c", "f", "-", "m", "a", "r", "k", "d", "o", "w", "n", "\"", ">", "H", "e", "l", "l", "o", "<", "/", "d", "i", "v", ">", "<", "/", "h", "1", ">" >>
                   \o << "<", "p", ">", "<", "d", "i", "v", " ", "c", "l", "a", "s", "s", "=", "\"", "c", "f", "-", "m", "a", "r", "k", "d", "o", "w", "n", "\"", ">", "W", "o", "r", "l", "d", "<", "/", "d", "i", "v", ">", "<", "/", "p", ">" >> >>

\* The example has been compiled.
C19_Witness ==
    /\ tplPc = "compiled"
    /\ tplSource = ExampleTemplate
    /\ codeblock = ExampleCodeblock

(***************************************************************************)
(* C20.  If a Required placeholder has no property of its name, compile    *)
(* fails with an error naming that placeholder and returns no output; of   *)
(* several unresolved Required placeholders the first in document order    *)
(* is the one the failure is raised at and names.                          *)
(***************************************************************************)
\* The positions of the Required tokens of ts that cb has no property for.
Unresolved(ts, cb) ==
    { i \in 1..Len(ts) :
        /\ ts[i].class = "RequiredToken"
        /\ \A j \in 1..Len(cb) : cb[j].key # ts[i].key }

C20_FirstMissingRequired ==
    tplPc \in {"compiled", "failed"} =>
        IF Unresolved(tokens, codeblock) # {}
        THEN /\ tplPc = "failed"
             /\ tplThrown = MissingValueError(tokens[Min(Unresolved(tokens, codeblock))].key)
             /\ compiledTemplate = <<>>
             /\ Len(compiledTokens) = Min(Unresolved(tokens, codeblock)) - 1
        ELSE /\ tplPc = "compiled"
             /\ tplThrown = NoError

\* A compile has failed on a template with two unresolved Required
\* placeholders of different names, after emitting a resolved one.
C20_Witness ==
    /\ tplPc = "failed"
    /\ \E i, j \in Unresolved(tokens, codeblock) : tokens[i].key # tokens[j].key
    /\ Len(compiledTokens) >= 1

(***************************************************************************)
(* C21.  An Optional placeholder with no matching property compiles to the *)
(* empty string at its position and never makes compile fail.              *)
(***************************************************************************)
\* Has cb a property of this key?
HasProperty(cb, key) == \E j \in 1..Len(cb) : cb[j].key = key

\* Every token compile has transformed stands at the position of the token
\* it came from; an unresolved Optional one has become the empty text, and
\* the token a failed compile stopped at is no Optional one.
C21_OptionalEmitsEmpty ==
    tplPc \in {"compiling", "compiled", "failed"} =>
        /\ Len(compiledTokens) <= Len(tokens)
        /\ tplPc = "compiled" => Len(compiledTokens) = Len(tokens)
        /\ \A i \in 1..Len(compiledTokens) :
             (tokens[i].class = "OptionalToken" /\ ~HasProperty(codeblock, tokens[i].key)) =>
                 compiledTokens[i] = TextToken(<<>>)
        /\ tplPc = "failed" => tokens[Len(compiledTokens) + 1].class # "OptionalToken"

\* A compile has returned for a template with text, a resolved placeholder
\* and an Optional placeholder that has no property.
C21_Witness ==
    /\ tplPc = "compiled"
    /\ \E i, j, k \in 1..Len(tokens) :
         /\ tokens[i].class = "OptionalToken"
         /\ ~HasProperty(codeblock, tokens[i].key)
         /\ tokens[j].type = "handlebar"
         /\ HasProperty(codeblock, tokens[j].key)
         /\ tokens[k].type = "text"

(***************************************************************************)
(* C22.  A Fallback placeholder with no matching property compiles to its  *)
(* own trimmed default at its position; when the same name occurs several  *)
(* times in one template with different defaults, tokenizing and compiling *)
(* succeed and every occurrence emits its own default.                     *)
(***************************************************************************)
\* An unresolved Fallback token has become the text of its own default,
\* which has no blanks at its ends, and the token a failed call stopped at
\* is no Fallback one.
C22_FallbackEmitsOwnDefault ==
    tplPc \in {"compiling", "compiled", "failed"} =>
        /\ \A i \in 1..Len(compiledTokens) :
             (tokens[i].class = "FallbackToken" /\ ~HasProperty(codeblock, tokens[i].key)) =>
                 /\ compiledTokens[i] = TextToken(tokens[i].fallback[1])
                 /\ tokens[i].fallback[1] = Trim(tokens[i].fallback[1])
        /\ tplPc = "failed" =>
             /\ tplThrown.text # "Syntax regex did not match its own substring."
             /\ tokens[Len(compiledTokens) + 1].class # "FallbackToken"

\* A compile has returned for {{ title | no title }}{{ title | }} without a
\* property title: two Fallback tokens of one name, each emitted with its
\* own default.
C22_Witness ==
    /\ tplPc = "compiled"
    /\ ~HasProperty(codeblock, Title)
    /\ \E i, j \in 1..Len(tokens) :
         /\ i < j
         /\ tokens[i].class = "FallbackToken" /\ tokens[j].class = "FallbackToken"
         /\ tokens[i].key = Title /\ tokens[j].key = Title
         /\ compiledTokens[i].content = << "n", "o", " ", "t", "i", "t", "l", "e" >>
         /\ compiledTokens[j].content = <<>>

(***************************************************************************)
(* C23.  When more than one Required placeholder is unresolved, the        *)
(* missing-required failure of compile names all of the unresolved         *)
(* Required placeholders, not just one of them.                            *)
(***************************************************************************)
\* The error of a failed compile holds the key of every Required token the
\* properties leave unresolved.
C23_NamesAllMissing ==
    tplPc = "failed" =>
        \A i \in Unresolved(tokens, codeblock) :
            Occurrences(tokens[i].key, tplThrown.keys) >= 1

(***************************************************************************)
(* C24.  Properties whose key matches no placeholder of the template are   *)
(* ignored: adding or removing such a property never changes the outcome   *)
(* of compile, neither its output string nor whether it fails.             *)
(***************************************************************************)
\* Is key the name of a placeholder of ts?
IsPlaceholder(ts, key) == \E i \in 1..Len(ts) : ts[i].type = "handlebar" /\ ts[i].key = key

\* The properties of cb whose key is the name of a placeholder of ts.
RECURSIVE UsedProperties(_, _)
UsedProperties(ts, cb) ==
    IF cb = <<>> THEN <<>>
    ELSE (IF IsPlaceholder(ts, cb[1].key) THEN << cb[1] >> ELSE <<>>)
         \o UsedProperties(ts, Tail(cb))

\* Has the compile that ended given what the compile before gave?
SameOutcome ==
    /\ compiledTemplate = compiledBefore[1].compiledTemplate
    /\ tplThrown = compiledBefore[1].thrown

\* Two compiles of the same tokens whose codeblocks differ in nothing but
\* properties that no placeholder names end the same way.
C24_UnusedPropertiesIgnored ==
    ( /\ tplPc \in {"compiled", "failed"}
      /\ compiledBefore # <<>>
      /\ UsedProperties(tokens, codeblock) = UsedProperties(tokens, compiledBefore[1].codeblock) )
    => SameOutcome

\* Tokens with a resolved placeholder have been compiled a second time with
\* one unused property more, or one less, than the first time.
C24_Witness ==
    /\ tplPc = "compiled"
    /\ compiledBefore # <<>>
    /\ Len(codeblock) # Len(compiledBefore[1].codeblock)
    /\ UsedProperties(tokens, codeblock) = UsedProperties(tokens, compiledBefore[1].codeblock)
    /\ UsedProperties(tokens, codeblock) # <<>>

(***************************************************************************)
(* C25.  Order of parameters does not matter: for a property list with     *)
(* unique keys, compile returns the same result (same output string or     *)
(* same failure) for every permutation of the list.                        *)
(***************************************************************************)
UniqueKeys(cb) == \A i, j \in 1..Len(cb) : cb[i].key = cb[j].key => i = j

C25_OrderIrrelevant ==
    ( /\ tplPc \in {"compiled", "failed"}
      /\ compiledBefore # <<>>
      /\ UniqueKeys(codeblock)
      /\ codeblock \in Reorderings(compiledBefore[1].codeblock) )
    => SameOutcome

\* Tokens with two resolved placeholders of different names have been
\* compiled with three properties and again with the three in another order.
C25_Witness ==
    /\ tplPc = "compiled"
    /\ compiledBefore # <<>>
    /\ Len(codeblock) = 3
    /\ UniqueKeys(codeblock)
    /\ codeblock # compiledBefore[1].codeblock
    /\ codeblock \in Reorderings(compiledBefore[1].codeblock)
    /\ \E i, j \in 1..Len(tokens) :
         /\ tokens[i].type = "handlebar" /\ tokens[j].type = "handlebar"
         /\ tokens[i].key # tokens[j].key
         /\ HasProperty(codeblock, tokens[i].key)
         /\ HasProperty(codeblock, tokens[j].key)

(***************************************************************************)
(* C26.  When a property is present for every placeholder name of a        *)
(* template, tokenizing and compiling it reproduces the template with each *)
(* placeholder substituted, and the output contains no residual {{ / }}    *)
(* pair.                                                                   *)
(***************************************************************************)
Opening == << "{", "{" >>
Closing == << "}", "}" >>

\* Has cb a property for every placeholder of ts?
AllResolved(ts, cb) ==
    \A i \in 1..Len(ts) : ts[i].type = "handlebar" => HasProperty(cb, ts[i].key)

\* What cb gives for key: the value of the last property of that key,
\* written for HTML, inside the cf-markdown element.
Substitute(cb, key) ==
    << "<", "d", "i", "v", " ", "c", "l", "a", "s", "s", "=", "\"", "c", "f", "-", "m", "a", "r", "k", "d", "o", "w", "n", "\"", ">" >>
    \o escapeHTML(cb[Max({ j \in 1..Len(cb) : cb[j].key = key })].value)
    \o << "<", "/", "d", "i", "v", ">" >>

\* The texts of ts and, for its placeholders, what cb gives for their
\* names, one after the other.
RECURSIVE Substituted(_, _)
Substituted(ts, cb) ==
    IF ts = <<>> THEN <<>>
    ELSE (IF ts[1].type = "text" THEN ts[1].content ELSE Substitute(cb, ts[1].key))
         \o Substituted(Tail(ts), cb)

\* A step of parse takes the source from the scan position on as it
\* stands: the text up to the next placeholder as one Text token (none if
\* empty) and the placeholder as one token, or the rest as one Text token.
TokensReproduceSource ==
    tplPc = "parsing" =>
        CASE tplPc' = "parsing" ->
               /\ tplMatch'[1].index >= tplIndex
               /\ tplIndex' = tplMatch'[1].index + Len(tplMatch'[1].text)
               /\ SubSeq(tplSource, tplMatch'[1].index + 1, tplIndex') = tplMatch'[1].text
               /\ \E t \in { tokens'[Len(tokens')] } :
                    /\ t.type = "handlebar"
                    /\ tokens' = tokens
                           \o (IF tplMatch'[1].index > tplIndex
                               THEN << TextToken(SubSeq(tplSource, tplIndex + 1, tplMatch'[1].index)) >>
                               ELSE <<>>)
                           \o << t >>
          [] tplPc' = "parsed" ->
               tokens' = tokens
                  \o (IF tplIndex < Len(tplSource)
                      THEN << TextToken(SubSeq(tplSource, tplIndex + 1, Len(tplSource))) >>
                      ELSE <<>>)
          [] OTHER -> FALSE

\* Does s hold an opening pair of braces with a closing pair after it?
ResidualPair(s) ==
    \E i, j \in 1..Len(s) :
        /\ i + 2 <= j
        /\ StartsWith(s, i, Opening)
        /\ StartsWith(s, j, Closing)

\* The claim as it stands: what compile returns.
C26_NoResidualBraces ==
    (tplPc \in {"compiled", "failed"} /\ AllResolved(tokens, codeblock)) =>
        /\ tplPc = "compiled"
        /\ compiledTemplate = << Substituted(tokens, codeblock) >>
        /\ ~ResidualPair(compiledTemplate[1])

\* How many opening pairs the texts of ts and the values cb gives for the
\* placeholders of ts hold.
RECURSIVE OpeningsKept(_, _)
OpeningsKept(ts, cb) ==
    IF ts = <<>> THEN 0
    ELSE (IF ts[1].type = "text" THEN Occurrences(Opening, ts[1].content)
          ELSE Occurrences(Opening, cb[Max({ j \in 1..Len(cb) : cb[j].key = ts[1].key })].value))
         + OpeningsKept(Tail(ts), cb)

\* The claim amended: the tokens are the source cut at its placeholders,
\* the output is the tokens with every placeholder replaced; the brace
\* pairs left in it are those of template text that matches no syntax and
\* those of the property values.
C26_PlaceholdersSubstituted ==
    /\ [][ TokensReproduceSource ]_vars
    /\ []( (tplPc \in {"compiled", "failed"} /\ AllResolved(tokens, codeblock)) =>
             /\ tplPc = "compiled"
             /\ compiledTemplate = << Substituted(tokens, codeblock) >>
             /\ \A i \in 1..Len(tokens) :
                  tokens[i].type = "text" => masterExec(tokens[i].content, 0) = <<>>
             /\ Occurrences(Opening, compiledTemplate[1]) = OpeningsKept(tokens, codeblock) )

\* A template with two placeholders and text that only looks like one has
\* been compiled with a property for each placeholder, one of the values
\* holding braces itself.
C26_Witness ==
    /\ tplPc = "compiled"
    /\ AllResolved(tokens, codeblock)
    /\ \E i, j, k \in 1..Len(tokens) :
         /\ tokens[i].type = "handlebar" /\ tokens[j].type = "handlebar"
         /\ tokens[i].key # tokens[j].key
         /\ ResidualPair(compiledTokens[i].content)
         /\ tokens[k].type = "text"
         /\ ResidualPair(tokens[k].content)

(***************************************************************************)
(* C27.  compile makes a single pass over the tokens: text emitted for a   *)
(* placeholder (a property value or a default) is never re-scanned, so a   *)
(* value that itself contains placeholder syntax such as {{ other }} is    *)
(* not expanded by any other property.                                     *)
(***************************************************************************)
\* A value that is a placeholder for the property content.
ContentPlaceholder == << "{", "{", "c", "o", "n", "t", "e", "n", "t", "}", "}" >>

\* Each token has become one text: that of its own property, with whatever
\* braces the value holds, or its own default; the output is these texts
\* one after the other.
C27_SinglePass ==
    tplPc \in {"compiling", "compiled"} =>
        /\ \A i \in 1..Len(compiledTokens) :
             /\ compiledTokens[i].type = "text"
             /\ tokens[i].type = "text" => compiledTokens[i] = tokens[i]
             /\ tokens[i].type = "handlebar" =>
                  /\ compiledTokens[i].content =
                       IF HasProperty(codeblock, tokens[i].key)
                       THEN Substitute(codeblock, tokens[i].key)
                       ELSE tokens[i].fallback[1]
        /\ tplPc = "compiled" =>
             /\ Len(compiledTokens) = Len(tokens)
             /\ compiledTemplate = << joinContents(compiledTokens) >>
             /\ Occurrences(ContentPlaceholder, compiledTemplate[1])
                  >= Cardinality({ i \in 1..Len(tokens) :
                        /\ pairMapGet(codeblock, tokens[i].key) # <<>>
                        /\ pairMapGet(codeblock, tokens[i].key)[1].value = ContentPlaceholder })

\* {{name}} has been compiled with name = {{content}} and content = World
\* next to a placeholder for content: the output holds {{content}}.
C27_Witness ==
    /\ tplPc = "compiled"
    /\ \E i, j \in 1..Len(tokens) :
         /\ tokens[i].key = Name
         /\ tokens[j].key = Content
    /\ pairMapGet(codeblock, Name) = << CodeblockProperty(Name, ContentPlaceholder) >>
    /\ pairMapGet(codeblock, Content) = << CodeblockProperty(Content, World) >>
    /\ Occurrences(ContentPlaceholder, compiledTemplate[1]) = 1

(***************************************************************************)
(* C28.  For a placeholder with a matching property, compile emits the     *)
(* property's value wrapped as <div class="cf-markdown">value</div> at     *)
(* that position, while the default of an unresolved Optional or Fallback  *)
(* placeholder is emitted unwrapped.  Amended: the value inside the        *)
(* element has passed escapeHTML.                                          *)
(***************************************************************************)
DivOpen ==
    << "<", "d", "i", "v", " ", "c", "l", "a", "s", "s", "=", "\"", "c", "f", "-", "m", "a", "r", "k", "d", "o", "w", "n", "\"", ">" >>
DivClose == << "<", "/", "d", "i", "v", ">" >>

\* The characters for which what escapeHTML writes is not known.
HtmlSpecial == { "&", "<", ">", "\"", "'" }

Conflicting(ms) ==
    \E i, j \in 1..Len(ms) :
        /\ i < j
        /\ ms[i].token.name = ms[j].token.name
        /\ \/ ms[i].token.class # ms[j].token.class
           \/ /\ ms[i].token.class = "DefaultedToken"
              /\ ms[i].token.defaultValue # ms[j].token.defaultValue

\* The tokens of ms[i..] whose name no placeholder before them has.
RECURSIVE FirstOfEachName(_, _)
FirstOfEachName(ms, i) ==
    IF i > Len(ms) THEN <<>>
    ELSE (IF \E j \in 1..(i - 1) : ms[j].token.name = ms[i].token.name
          THEN <<>> ELSE << ms[i].token >>)
         \o FirstOfEachName(ms, i + 1)

C29_RejectsExactlyConflicts ==
    buildPc \in {"built", "failed"} =>
        IF Conflicting(tokenMatches)
        THEN /\ buildPc = "failed"
             /\ buildThrown # NoError
        ELSE /\ buildPc = "built"
             /\ buildThrown = NoError
             /\ buildTokens = FirstOfEachName(tokenMatches, 1)

\* A call has kept one token for two equal defaulted placeholders and has
\* then been stopped by a third of the same name with another default.
C29_Witness ==
    /\ buildPc = "failed"
    /\ buildThrown.text = "Token conflict: Token '<name>' exists with different properties."
    /\ buildIndex = 2
    /\ Len(buildTokens) = 1

(***************************************************************************)
(* C30.  For the example codeblock of the Codeblock Engine document        *)
(* (title: Example, description: This is a test, a line of three backticks *)
(* followed by js console.log("Hello");, a line of three backticks, notes: *)
(* Some extra info), parsing succeeds: the first backtick line opens a     *)
(* fence (NestedStartState), the next backtick line closes it              *)
(* (NestedEndState), notes starts a third pair, and parsing ends in        *)
(* CodeblockEndState with the pairs title, description and notes.          *)
(***************************************************************************)
\* The keys of the properties ps, in order.
KeysOf(ps) == [ i \in 1..Len(ps) |-> ps[i].key ]

\* While the example is parsed, the state entered for its third line is
\* NestedStartState, for its fourth NestedEndState and for its fifth
\* PairState; the call returns from CodeblockEndState with the three pairs.
C30_DocExampleParses ==
    source = Join(DocExampleLines, << "\n" >>) =>
        /\ pc # "thrown"
        /\ (pc = "running" /\ match # <<>> /\ state # "CodeblockStartState"
               /\ state # "CodeblockEndState" /\ state # "ParsingErrorState") =>
             state = CASE index = 0 -> "PairState"
                       [] index = 1 -> "PairState"
                       [] index = 2 -> "NestedStartState"
                       [] index = 3 -> "NestedEndState"
                       [] OTHER     -> "PairState"
        /\ pc = "returned" =>
             /\ state = "CodeblockEndState"
             /\ KeysOf(pairs) = << << "t", "i", "t", "l", "e" >>,
                                   << "d", "e", "s", "c", "r", "i", "p", "t", "i", "o", "n" >>,
                                   << "n", "o", "t", "e", "s" >> >>

(***************************************************************************)
(* C31.  Pair.render() triggers markdown rendering once: whatever render() *)
(* calls are made on one Pair, calls begun before an earlier one has       *)
(* resolved included, renderMarkdownString is invoked at most once and     *)
(* every call resolves to the same HTML.                                   *)
(***************************************************************************)
C31_RendersOnce ==
    /\ Len(rendered) <= 1
    /\ \A i, j \in 1..Len(renderCalls) :
         (renderCalls[i].pc = "resolved" /\ renderCalls[j].pc = "resolved")
            => renderCalls[i].html = renderCalls[j].html

(***************************************************************************)
(* C32.  During a parse a finalized property is never modified, removed or *)
(* reordered: every handler leaves the output list as it is or appends the *)
(* buffered property to it, which happens exactly when a property          *)
(* declaration is entered or the end of input is handled while a property  *)
(* is buffered; the buffer is then replaced, so each declared property is  *)
(* appended once; and a value append changes the buffered property alone,  *)
(* by lengthening its value.                                               *)
(***************************************************************************)
\* The states whose handler appends a line to a value.
AppendingStates ==
    { "PairContentState", "NestedStartState", "NestedContentState", "NestedEndState" }

C32_FinalizedPropertiesKept ==
    [][ pc = "running" =>
          /\ Len(pairs') >= Len(pairs)
          /\ SubSeq(pairs', 1, Len(pairs)) = pairs
          /\ IF state \in { "PairState", "CodeblockEndState" } /\ pair # <<>>
             THEN pairs' = Append(pairs, pair[1])
             ELSE pairs' = pairs
          /\ state = "PairState" =>
                pair' = << [ key   |-> match[1].matchResult[2],
                             value |-> match[1].matchResult[3] ] >>
          /\ state = "CodeblockEndState" => pair' = <<>>
          /\ (state \in AppendingStates /\ pair # <<>>) =>
                /\ pair' # <<>>
                /\ pair'[1].key = pair[1].key
                /\ Len(pair'[1].value) > Len(pair[1].value)
                /\ SubSeq(pair'[1].value, 1, Len(pair[1].value)) = pair[1].value ]_vars

\* Two properties are finalized and the third, buffered one has been given a
\* further line.
C32_Witness ==
    /\ pc = "running"
    /\ Len(pairs) >= 2
    /\ pair # <<>>
    /\ \E i \in 1..Len(pair[1].value) : pair[1].value[i] = "\n"

(***************************************************************************)
(* C33.  The handlers of PairContentState, NestedStartState,               *)
(* NestedContentState and NestedEndState append the current line without   *)
(* its leading and trailing whitespace, after a \n, to the buffered        *)
(* property's value.                                                       *)
(***************************************************************************)
C33_AppendsTrimmedLine ==
    [][ (pc = "running" /\ state \in AppendingStates /\ pair # <<>>) =>
          pair' = << [ key   |-> pair[1].key,
                       value |-> pair[1].value \o << "\n" >> \o Trim(lines[index + 1]) ] >> ]_vars

(***************************************************************************)
(* C34.  In a parse that starts with the fence-terminator slot empty, at   *)
(* every match of a line the fence-close rule is active exactly when the   *)
(* state whose handler does the match is NestedStartState or               *)
(* NestedContentState, and the terminator is then the backtick run of the  *)
(* most recent fence-open line; the first line is matched with the rule    *)
(* inactive, and the slot is empty whenever the parse returns.             *)
(***************************************************************************)
\* The line that opened the fence which is open once lines i..k of ls are
\* handled (0 if none is), o being the opening line of the fence line i lies
\* in (0 outside fences).
RECURSIVE OpenFence(_, _, _, _)
OpenFence(ls, i, k, o) ==
    IF i > k THEN o
    ELSE IF o # 0
         THEN OpenFence(ls, i + 1, k,
                        IF ls[i] = Ticks(PrefixLen(ls[o], {Tick})) THEN 0 ELSE o)
    ELSE IF PropertyExec(ls[i]) = <<>> /\ NestedStartExec(ls[i]) # <<>>
         THEN OpenFence(ls, i + 1, k, i)
    ELSE OpenFence(ls, i + 1, k, 0)

\* A handler of a line state runs and its jump matches the next line.
MatchesLine ==
    /\ pc = "running"
    /\ state \in LineStates
    /\ pair # <<>>
    /\ ~isLastLine(lines, index)

C34_TerminatorTracksFence ==
    /\ [][ (pc = "idle" /\ pc' # "idle") => codefenceRegex' = <<>> ]_vars
    /\ [][ MatchesLine =>
             /\ (codefenceRegex' # <<>>) <=> (state \in FenceStates)
             /\ state \in FenceStates =>
                   LET o == OpenFence(lines, 1, index + 1, 0)
                   IN  /\ o # 0
                       /\ state = "NestedStartState" => o = index + 1
                       /\ codefenceRegex' = Ticks(PrefixLen(lines[o], {Tick})) ]_vars
    /\ [](pc = "returned" => codefenceRegex = <<>>)

\* "b:", four backticks, three backticks, four backticks: the handler of the
\* fence's content line has matched the last line with the terminator of
\* four active, and the line closes the fence.
C34_Witness ==
    /\ pc = "running"
    /\ lines = << << "b", ":" >>, Ticks(4), Ticks(3), Ticks(4) >>
    /\ index = 3
    /\ state = "NestedEndState"
    /\ codefenceRegex = Ticks(4)

(***************************************************************************)
(* C35.  Every parse terminates: for any non-empty input of n lines the    *)
(* parser reaches End or Error after a bounded number of state handlers,   *)
(* the line index never decreases and never exceeds n - 1, and each line   *)
(* is handled by exactly one state handler (the first line is matched in   *)
(* Start but handled in PropertyDeclared).  Amended: a call on a non-empty *)
(* input of n lines returns or throws after at most n + 2 state handlers,  *)
(* through CodeblockEndState, through ParsingErrorState or by the throw of *)
(* the line matcher; the line index never decreases and stays within       *)
(* 0..n - 1; the start state handles no line and leaves the first line to  *)
(* PairState; the handler of a line state handles the line at the index    *)
(* and is followed by the next line's handler, by a final state or by the  *)
(* end of the call, so a line is never handled twice and a parse that      *)
(* reaches CodeblockEndState has handled every line once.                  *)
(***************************************************************************)
\* The handlers a call may still run: n + 2 on entering the start state, one
\* less after each handler.
HandlersLeft ==
    (Len(lines) - index)
       + (CASE state = "CodeblockStartState" -> 2
            [] state \in LineStates          -> 1
            [] OTHER                         -> 0)

\* The call under way or over has run a handler on each of its lines: it
\* has reached the end state, or the error state from the handler of its
\* last line.
EveryLineHandled ==
    \/ state = "CodeblockEndState"
    \/ /\ state = "ParsingErrorState"
       /\ index = Len(lines) - 1
       /\ errorMsg.text = UnexpectedEndError("").text

\* The claim as it stands: every call on a non-empty input comes to the end
\* state or the error state, with every line handled by one handler.
C35_EndOrErrorEveryLineOnce ==
    /\ [](pc = "running" =>
            /\ index \in 0..(Len(lines) - 1)
            /\ HandlersLeft \in 1..(Len(lines) + 2))
    /\ [][ pc = "running" => index' \in { index, index + 1 } ]_vars
    /\ []((pc \in { "returned", "thrown" } /\ lines # <<>>) =>
            (isFinal(state) /\ EveryLineHandled))
    /\ (pc = "running") ~> (pc \in { "returned", "thrown" } /\ isFinal(state))

C35_ParseTerminates ==
    /\ [](pc = "running" =>
            /\ index \in 0..(Len(lines) - 1)
            /\ state \in LineStates \cup { "CodeblockStartState", "CodeblockEndState",
                                           "ParsingErrorState" }
            /\ HandlersLeft \in 1..(Len(lines) + 2))
    /\ [][ (pc = "idle" /\ pc' = "running") =>
             (index' = 0 /\ HandlersLeft' = Len(lines') + 2) ]_vars
    /\ [][ pc = "running" =>
             /\ index' \in { index, index + 1 }
             /\ pc' \in { "running", "returned", "thrown" }
             /\ pc' = "running" => HandlersLeft' < HandlersLeft
             /\ state = "CodeblockStartState" =>
                   (index = 0 /\ index' = 0 /\ state' \in { "PairState", "ParsingErrorState" })
             /\ state \in LineStates =>
                   \/ pc' = "thrown"
                   \/ index' = index + 1
                   \/ index' = index /\ index = Len(lines) - 1 /\ isFinal(state')
             /\ isFinal(state) => pc' # "running"
             /\ (state' = "CodeblockEndState" /\ state # "CodeblockEndState") =>
                   (state \in LineStates /\ index = Len(lines) - 1) ]_vars
    /\ (pc = "running") ~> (pc \in { "returned", "thrown" })

\* A parse of four lines has returned, the index on its last line.
C35_Witness ==
    /\ pc = "returned"
    /\ Len(lines) = MaxLines
    /\ index = MaxLines - 1
    /\ state = "CodeblockEndState"

(***************************************************************************)
(* C36.  Whenever a handler appends a line to a value a property is        *)
(* buffered: the start state lets a call on to PairState alone, and only   *)
(* when the first line is a property declaration; every state entered      *)
(* after that finds the buffer filled; no call throws `no active pair to   *)
(* append to`.                                                             *)
(***************************************************************************)
C36_AppendFindsProperty ==
    /\ (pc = "running" /\ state \in AppendingStates \cup { "CodeblockEndState" }) =>
          pair # <<>>
    /\ (pc = "running" /\ state = "PairState" /\ index = 0) =>
          /\ match[1].rule = "Property"
          /\ PropertyExec(lines[1]) # <<>>
    /\ (pc = "running" /\ state \in LineStates /\ index > 0) => pair # <<>>
    /\ thrown.text # NoActivePairError(0).text

\* The handler of PairContentState is about to append the second line to
\* the property the first line declared.
C36_Witness ==
    /\ pc = "running"
    /\ state = "PairContentState"
    /\ index = 1
    /\ pair # <<>>
    /\ pairs = <<>>

(***************************************************************************)
(* C37.  On a source whose lines carry no leading or trailing whitespace   *)
(* and whose keys are unique, parseProperties and fromString visit the     *)
(* same sequence of states, fail on the same sources and return the same   *)
(* key/value list.                                                         *)
(***************************************************************************)
\* No line of the source carries leading or trailing whitespace.
PlainLines == \A i \in 1..Len(tableLines) : Trim(tableLines[i]) = tableLines[i]

\* The table-driven parser found no key twice.
UniqueNames ==
    \A i, j \in 1..Len(parsedProperties) :
        parsedProperties[i].name = parsedProperties[j].name => i = j

\* Which of the states fromString visits the current one is: the start state
\* is the first, the state of line i (0-based) the (i + 2)th, a final state
\* follows the state of the line it was entered on.
StatePosition ==
    CASE state = "CodeblockStartState" -> 1
      [] state \in LineStates -> index + 2
      [] state = "CodeblockEndState" -> index + 3
      [] state = "ParsingErrorState" ->
            IF errorMsg.text = UnexpectedEndError("").text THEN index + 3 ELSE index + 2

SameList ==
    /\ Len(pairs) = Len(parsedProperties)
    /\ \A i \in 1..Len(pairs) :
         /\ pairs[i].key = parsedProperties[i].name
         /\ pairs[i].value = parsedProperties[i].value

C37_ParsersEquivalent ==
    (tablePc \in { "returned", "thrown" } /\ PlainLines /\ UniqueNames) =>
        /\ pc = "running" =>
              /\ StatePosition <= Len(visited)
              /\ ClassOf[visited[StatePosition]] = state
              /\ isFinal(state) => StatePosition = Len(visited)
        /\ pc = "returned" => (tablePc = "returned" /\ SameList)
        /\ pc = "thrown" =>
              /\ tablePc = "thrown"
              /\ thrown.text = NoMatchError(0).text =>
                    (tableThrown.text = CouldNotMatchError(0, <<>>).text
                        /\ tableThrown.line = thrown.line)

(***************************************************************************)
(* C38.  Tokenizing loses no text: the tokens parse returns tile the       *)
(* template from its first character to its last, a Text token covering    *)
(* the characters that are its content and a placeholder token the span    *)
(* the master expression matches where the token before ended, so the      *)
(* contents and spans in token order are the template string.              *)
(***************************************************************************)
\* Do the tokens ts cover s from position from (0-based) to its end, each
\* character in one token?
RECURSIVE Tiles(_, _, _)
Tiles(ts, s, from) ==
    IF ts = <<>> THEN from = Len(s)
    ELSE IF ts[1].type = "text"
         THEN /\ Len(ts[1].content) > 0
              /\ from + Len(ts[1].content) <= Len(s)
              /\ SubSeq(s, from + 1, from + Len(ts[1].content)) = ts[1].content
              /\ Tiles(Tail(ts), s, from + Len(ts[1].content))
         ELSE \E m \in { masterExec(s, from) } :
                /\ m # <<>>
                /\ m[1].index = from
                /\ tokenFromMatch(m[1]) = << ts[1] >>
                /\ Tiles(Tail(ts), s, from + Len(m[1].text))

C38_TokensTileSource == tplPc = "parsed" => Tiles(tokens, tplSource, 0)

\* " Hi " followed by {{ title }} inside <h1> and " Hi " again: text with
\* blanks at either end of the template, around a placeholder.
C38_Witness ==
    /\ tplPc = "parsed"
    /\ Len(tokens) = 3
    /\ tokens[1].type = "text"
    /\ tokens[1].content[1] = " "
    /\ tokens[2].type = "handlebar"
    /\ tokens[3].type = "text"
    /\ tokens[3].content[Len(tokens[3].content)] = " "

(***************************************************************************)
(* C39.  compile decides between value and default by the presence of a    *)
(* property, not by its content: the token compiled for a placeholder      *)
(* whose key the codeblock holds is the wrapped value of the last property *)
(* of that key, the empty wrapper where that value is empty and never the  *)
(* placeholder's default, and compile throws "Missing value" only for a    *)
(* key the codeblock does not hold.                                        *)
(***************************************************************************)
\* The indices of the properties of cb with the key.
Holding(cb, key) == { j \in 1..Len(cb) : cb[j].key = key }

\* <div class="cf-markdown"></div>
EmptyWrapper == wrap(CodeblockProperty(<<>>, <<>>))

C39_EmptyValueResolves ==
    /\ tplPc \in {"compiling", "compiled"} =>
         \A i \in 1..Len(compiledTokens) :
            tokens[i].type = "handlebar" /\ Holding(codeblock, tokens[i].key) # {} =>
              LET value == codeblock[Max(Holding(codeblock, tokens[i].key))].value
              IN  /\ compiledTokens[i].content = wrap(CodeblockProperty(tokens[i].key, value))
                  /\ value = <<>> => compiledTokens[i].content = EmptyWrapper
    /\ tplPc = "failed" /\ tplThrown # Error("Syntax regex did not match its own substring.") =>
         /\ Holding(codeblock, tplThrown.keys) = {}
         /\ tplThrown = MissingValueError(tplThrown.keys)

\* {{title}}{{content?}}{{content|nothing}} compiled with title and content
\* both present and empty: three empty wrappers.
C39_Witness ==
    /\ tplPc = "compiled"
    /\ Len(tokens) = 3
    /\ tokens[1] = RequiredToken(Title)
    /\ tokens[2] = OptionalToken(Content)
    /\ tokens[3].type = "handlebar" /\ tokens[3].fallback = << << "n", "o", "t", "h", "i", "n", "g" >> >>
    /\ codeblock = << CodeblockProperty(Title, <<>>), CodeblockProperty(Content, <<>>) >>
    /\ compiledTemplate = << EmptyWrapper \o EmptyWrapper \o EmptyWrapper >>

(***************************************************************************)
(* C40.  Template.fill substitutes every token independently: what fill    *)
(* returns is the normalized template with each placeholder replaced by    *)
(* the rendered value of its token as it was given, whatever the other     *)
(* values hold and in whatever order the tokens are taken.                 *)
(***************************************************************************)
\* s from position i on with every placeholder of a key of map replaced, in
\* one pass, by the value of the key.
RECURSIVE FilledInOnePass(_, _, _)
FilledInOnePass(s, map, i) ==
    IF i > Len(s) THEN <<>>
    ELSE LET hit == { key \in DOMAIN map :
                        /\ i + Len(placeholder(key)) - 1 <= Len(s)
                        /\ SubSeq(s, i, i + Len(placeholder(key)) - 1) = placeholder(key) }
         IN  IF hit # {}
             THEN LET key == CHOOSE k \in hit : TRUE
                  IN  map[key] \o FilledInOnePass(s, map, i + Len(placeholder(key)))
             ELSE << s[i] >> \o FilledInOnePass(s, map, i + 1)

C40_FillIndependent ==
    fillPc = "filled" =>
      filled = FilledInOnePass(normalizedTemplateString(sourceString), renderedMap, 1)

====
